---- MODULE Spec2Model ----
(***************************************************************************)
(* A model of the curricula-grade task engine: the task collection and its *)
(* dependency sort (task/collection.py), the registrars, the scope filter  *)
(* (grader/task/filter.py), Task.run (grader/task/__init__.py) and the     *)
(* execution loop Grader.run (grader/__init__.py).                         *)
(***************************************************************************)
EXTENDS Integers, Sequences, FiniteSets, TLC

VARIABLES
    tasks,      \* TaskCollection.tasks: the ordered list of Task records
    pushed,     \* while the collection is built: for each position of tasks, the
                \* ordinal of the push that added the task (a run does not read it)
    phase,      \* "register" | "running" | "done" | "aborted" | "regfail"
    options,    \* context.options of the run: [tags, tasks], each an optional set of items
    filter,     \* the TaskFilter built by Grader.run: [tags, task_names, related_task_names]
    idx,        \* number of tasks of the collection the loop of Grader.run has gone through
    report,     \* the ProblemReport: [results: name -> Result, partial: BOOLEAN]
    resources,  \* keys of the shared resource mapping
    invoked,    \* positions (in tasks) of the tasks whose body was invoked, in order
    error,      \* the exception that left push or Grader.run, or None
    last,       \* what the latest push or loop iteration did
    problem,    \* Grader.problem.short: the namespace of the problem
    original,   \* the Result or Error handed to dump, or NoObject
    data,       \* the mapping dump returned, which load is given
    loaded,     \* what load returned or raised
    registration,  \* the latest call of a registrar: its inputs, the arguments
                   \* evaluated for Task(...), and how the call ended
    report_file,   \* the report at existing_report_path, as AssignmentReport.load reads it
    new_report,    \* the AssignmentReport of the run that is to be merged in
    amended        \* what amend_report returned or raised

\* The variables of a serialization round trip (dump, then load).
serial == <<original, data, loaded>>

\* The variables of amend_report.
amendment == <<report_file, new_report, amended>>

vars == <<tasks, pushed, phase, options, filter, idx, report, resources, invoked, error, last,
          problem, original, data, loaded, registration, report_file, new_report, amended>>

None == "None"

\* An Optional[Set]: <<>> is None, <<s>> is the set s.
NoSet == <<>>
Some(s) == <<s>>
IsNone(o) == Len(o) = 0
Value(o) == o[1]

\* Python values, each a record that names its class; == of two values is
\* equality of the records.  An object compared by identity carries an id.
PyNone == [class |-> "NoneType"]
PyStr(s) == [class |-> "str", str |-> s, args |-> <<>>]
PyFormat(template, args) == [class |-> "str", str |-> template, args |-> args]
PyInt(n) == [class |-> "int", int |-> n]
PyObject(name) == [class |-> "object", name |-> name, copy |-> 0]
PyDict(items) == [class |-> "dict", items |-> items]
PyList(items) == [class |-> "list", items |-> items]

\* How a call ended: with a value, or with an exception.
Returned(value) == [class |-> "returned", value |-> value]
Raised(type) == [class |-> "raised", type |-> type]

\* A mapping restricted to some of its keys.
Restrict(mapping, keys) == [k \in keys |-> mapping[k]]

\* mapping.pop(key, None)
Pop(mapping, key) == IF key \in DOMAIN mapping THEN mapping[key] ELSE PyNone

\* copy.deepcopy, as dataclasses.asdict applies it to a field value: a
\* string, a number or None is itself, an object() is copied.
DeepCopy(value) ==
    IF value.class = "object" THEN [value EXCEPT !.copy = @ + 1] ELSE value

\* Decimal and its str() / Decimal(str) conversions.
DecimalDigits == <<"1", "2", "10">>
Decimal(n) == [class |-> "Decimal", value |-> n]
DecimalStr(d) == PyStr(DecimalDigits[d.value])
DecimalParse(s) ==
    Decimal(CHOOSE n \in 1..Len(DecimalDigits) : DecimalDigits[n] = s.str)

----------------------------------------------------------------------------
(* Bounds and input domains *)

MaxTasks == 3

Names == {"a", "b", "c"}

\* The problem namespace of the run (GradingProblem.short).
ProblemShort == "p"

\* Result classes and the class attribute `kind` of each.
ResultTypes == {"SetupResult", "CorrectnessResult", "ComplexityResult"}

KindOf(result_type) ==
    CASE result_type = "SetupResult" -> "generic"
      [] result_type = "CorrectnessResult" -> "correctness"
      [] result_type = "ComplexityResult" -> "correctness"

\* The base class Result (grader/task/__init__.py), which every result class
\* extends and a task may declare as mock.task does, has no attribute kind.
BaseResult == "Result"

HasKind(result_type) == result_type # BaseResult

\* Dependency declarations a task is pushed with: none, one passing
\* dependency, one complete dependency (on the first task), or one of each.
DependencyChoices ==
    {d \in [passing : SUBSET Names, complete : SUBSET {"a"}] :
        /\ Cardinality(d.passing) <= 1
        /\ d.complete # {} => d.passing \subseteq {"b"}}

\* Signature of the body registered under each name: parameters in order,
\* each with or without a default.
ParamsOf(name) ==
    CASE name = "a" -> << [name |-> "submission", has_default |-> FALSE],
                          [name |-> "resources", has_default |-> FALSE] >>
      [] name = "b" -> << [name |-> "module", has_default |-> FALSE] >>
      [] name = "c" -> << [name |-> "timeout", has_default |-> TRUE] >>

TagsOf(name) ==
    CASE name = "a" -> {"t1", "t2"}
      [] name = "b" -> {}
      [] name = "c" -> {"t2"}

ResultTypeOf(name) ==
    CASE name = "a" -> "SetupResult"
      [] name = "b" -> "CorrectnessResult"
      [] name = "c" -> "CorrectnessResult"

SourceOf(name) ==
    CASE name = "a" -> "tests.py:10"
      [] name = "b" -> "tests.py:27"
      [] name = "c" -> "tests.py:40"

\* The tasks that may be pushed.
TaskInputs ==
    {[name |-> n, dependencies |-> d, tags |-> TagsOf(n),
      result_type |-> ResultTypeOf(n), params |-> ParamsOf(n),
      source |-> SourceOf(n)] : n \in Names, d \in DependencyChoices}

\* Keys a body that receives the mapping itself may publish.
PublishKeys == {"module"}

\* Filter selections of a run; an item is a string, held as its tokens,
\* ":" being the namespace separator.
TagSelections == {NoSet, Some({<<"t2">>, <<"q", ":", "t1">>})}
TaskSelections == {NoSet, Some({<<"c">>, <<"p", ":", "b">>, <<"q", ":", "a">>})}
OptionInputs == [tags : TagSelections, tasks : TaskSelections]

----------------------------------------------------------------------------
(* Dependencies *)

\* Dependencies.all
All(dependencies) == dependencies.passing \cup dependencies.complete

\* topological_sort: a stable sort (Kahn's algorithm keyed by the position
\* in the list): repeatedly emit the first remaining task none of whose
\* dependencies is still among the remaining ones.  A dependency that names
\* no task of the list constrains nothing.  When no remaining task is ready
\* the dependencies are cyclic and the sort fails, naming the tasks left.
\* The order is given as the positions of the input list, in output order.
RECURSIVE Kahn(_, _, _)
Kahn(list, remaining, emitted) ==
    IF remaining = {}
    THEN [ok |-> TRUE, order |-> emitted, cycle |-> {}]
    ELSE LET ready == {i \in remaining :
                        \A j \in remaining :
                            list[j].name \notin All(list[i].dependencies)}
         IN IF ready = {}
            THEN [ok |-> FALSE, order |-> emitted,
                  cycle |-> {list[i].name : i \in remaining}]
            ELSE LET first == CHOOSE i \in ready : \A k \in ready : i <= k
                 IN Kahn(list, remaining \ {first}, Append(emitted, first))

topological_sort(list) == Kahn(list, 1..Len(list), <<>>)

\* The list rearranged in the order a successful sort gives.
Sorted(list) ==
    LET order == topological_sort(list).order
    IN [k \in 1..Len(list) |-> list[order[k]]]

----------------------------------------------------------------------------
(* Outcome model *)

\* A value a body returns or raises: a Result of some class (its error is
\* None or the description of an Error), None, or an exception that is no
\* Result.
ResultValue(type, complete, passing) ==
    [class |-> "Result", type |-> type, complete |-> complete,
     passing |-> passing, error |-> None, message |-> <<>>]

NoneValue ==
    [class |-> "None", type |-> None, complete |-> FALSE,
     passing |-> FALSE, error |-> None, message |-> <<>>]

ExceptionValue(type, message) ==
    [class |-> "Exception", type |-> type, complete |-> FALSE,
     passing |-> FALSE, error |-> None, message |-> message]

\* verify_runtime: the Result a body raises for a runtime that timed out,
\* failing, complete by the default of the class, carrying an Error.
RuntimeFailure(result_type) ==
    [ResultValue(result_type, TRUE, FALSE) EXCEPT !.error = "timed out"]

\* A variant of Result.incomplete that builds the default Result.
Incomplete_AsDefault(result_type) == ResultValue(result_type, TRUE, TRUE)

\* Result.incomplete
Incomplete(result_type) == ResultValue(result_type, FALSE, FALSE)

\* A variant of Result.default that builds a failing Result.
Default_Failing(result_type) == ResultValue(result_type, TRUE, FALSE)

\* Result.default
Default(result_type) == ResultValue(result_type, TRUE, TRUE)

----------------------------------------------------------------------------
(* Report *)

\* ProblemReport.create
ReportCreate == [results |-> <<>>, partial |-> FALSE]

\* Whether the report holds a Result under the name.
InReport(rep, name) == name \in DOMAIN rep.results

\* ProblemReport.add: the Result is stored under its task's name.  A Result
\* refers to its task by the task's position in the collection.
ReportAdd(rep, result) ==
    [rep EXCEPT !.results = (tasks[result.task].name :> result) @@ rep.results]

\* fulfills_dependencies: every passing-dependency has a Result that is
\* complete and passing, every complete-dependency one that is complete.
fulfills_dependencies(task, rep) ==
    /\ \A d \in task.dependencies.passing :
          /\ InReport(rep, d)
          /\ rep.results[d].complete
          /\ rep.results[d].passing
    /\ \A d \in task.dependencies.complete :
          /\ InReport(rep, d)
          /\ rep.results[d].complete

----------------------------------------------------------------------------
(* Scope filter *)

\* A task name or tag as the string the filter compares it with.
Str(word) == <<word>>

HasSeparator(item) == \E i \in 1..Len(item) : item[i] = ":"

\* A variant that takes the items of every namespace.
filter_problem_specific_AnyNamespace(collection, prefix) ==
    {item \in collection : ~HasSeparator(item)}
    \cup {SubSeq(item, 3, Len(item)) :
            item \in {i \in collection : HasSeparator(i) /\ Len(i) >= 2 /\ i[2] = ":"}}

\* TaskFilter.filter_problem_specific, for a prefix that holds no ":"
filter_problem_specific(collection, prefix) ==
    {item \in collection : ~HasSeparator(item)}
    \cup {SubSeq(item, 3, Len(item)) :
            item \in {i \in collection :
                        /\ HasSeparator(i)
                        /\ Len(i) >= 2 /\ i[1] = prefix /\ i[2] = ":"}}

\* task_lookup = {task.name: task for task in tasks}: the last task of a
\* name is the one kept.
HasTask(list, name) == \E i \in 1..Len(list) : list[i].name = name

Lookup(list, name) ==
    list[CHOOSE i \in 1..Len(list) :
            /\ list[i].name = name
            /\ \A j \in 1..Len(list) : list[j].name = name => j <= i]

\* flatten_dependencies: the named task and its dependencies of either
\* kind, transitively, as far as the lookup holds them.
RECURSIVE Flatten(_, _, _)
Flatten(frontier, seen, list) ==
    IF frontier = {} THEN seen
    ELSE LET name == CHOOSE n \in frontier : TRUE
             next == IF HasTask(list, name)
                     THEN All(Lookup(list, name).dependencies)
                     ELSE {}
         IN Flatten((frontier \cup next) \ (seen \cup {name}), seen \cup {name}, list)

flatten_dependencies(name, list) ==
    IF HasTask(list, name) THEN Flatten({name}, {}, list) ELSE {}

\* TaskFilter.__init__
TaskFilterInit(list, opts, problem_short) ==
    LET tags == IF IsNone(opts.tags) THEN NoSet
                ELSE Some(filter_problem_specific(Value(opts.tags), problem_short))
        task_names == IF IsNone(opts.tasks) THEN NoSet
                      ELSE Some(filter_problem_specific(Value(opts.tasks), problem_short))
        related == IF IsNone(opts.tasks) THEN NoSet
                   ELSE Some(UNION {{Str(r) : r \in flatten_dependencies(n, list)} :
                                        n \in {m \in {list[i].name : i \in 1..Len(list)} :
                                                Str(m) \in Value(task_names)}})
    IN [tags |-> tags, task_names |-> task_names, related_task_names |-> related]

\* A variant of the filter that does not look at the tags.
TaskFilterCall_NamesOnly(f, task) ==
    IF IsNone(f.task_names) THEN TRUE
    ELSE \/ Str(task.name) \in Value(f.task_names)
         \/ Str(task.name) \in Value(f.related_task_names)

\* TaskFilter.__call__
TaskFilterCall(f, task) ==
    LET tags_disjoint ==
            IF IsNone(f.tags) THEN FALSE
            ELSE \A t \in task.tags : Str(t) \notin Value(f.tags)
        name_excluded ==
            IF IsNone(f.task_names) THEN FALSE
            ELSE /\ Str(task.name) \notin Value(f.task_names)
                 /\ Str(task.name) \notin Value(f.related_task_names)
    IN IF tags_disjoint THEN FALSE
       ELSE IF name_excluded THEN FALSE
       ELSE TRUE

\* A variant of has_effect that looks at the tag filter alone.
has_effect_TagsOnly(f) == ~IsNone(f.tags)

\* TaskFilter.has_effect
has_effect(f) == ~IsNone(f.tags) \/ ~IsNone(f.task_names)

----------------------------------------------------------------------------
(* Task.run *)

ParamNames(task) == {task.params[i].name : i \in 1..Len(task.params)}

\* What the body of a task may do when called: publish keys into the shared
\* mapping (only a body that is handed the mapping can), then return a
\* Result or None, or raise a Result or another exception.  A Result of the
\* declared class that is complete and failing carries an Error, as those of
\* verify_runtime do; the others carry none.  The engine reads no field of a
\* Result of another class than the declared one, so those are drawn
\* complete and passing.
BodyResults(task) ==
    {ResultValue(task.result_type, TRUE, TRUE),
     RuntimeFailure(task.result_type),
     ResultValue(task.result_type, FALSE, TRUE),
     ResultValue(task.result_type, FALSE, FALSE)}
    \cup {ResultValue(t, TRUE, TRUE) : t \in ResultTypes \ {task.result_type}}

BodyExceptions == {ExceptionValue("KeyError", <<"'add'">>)}

Publishable(task) ==
    IF "resources" \in ParamNames(task) THEN SUBSET PublishKeys ELSE {{}}

Behaviours(task) ==
    {[how |-> h, value |-> v, publish |-> p] :
        h \in {"return", "raise"}, v \in BodyResults(task), p \in Publishable(task)}
    \cup {[how |-> "return", value |-> NoneValue, publish |-> p] :
            p \in Publishable(task)}
    \cup {[how |-> "raise", value |-> e, publish |-> p] :
            e \in BodyExceptions, p \in Publishable(task)}

\* A variant of the injection that passes a missing parameter as it is.
Unsatisfied_None(task, res) == {}

\* The parameters of the body, in order, that are neither a key of the
\* mapping nor defaulted.
Unsatisfied(task, res) ==
    {i \in 1..Len(task.params) :
        task.params[i].name \notin res /\ ~task.params[i].has_default}

\* The behaviours Task.run can meet: those of the body when every parameter
\* is satisfied; otherwise the body is not called and there is nothing to
\* choose.
Attempts(task, res) ==
    IF Unsatisfied(task, res) = {}
    THEN Behaviours(task)
    ELSE {[how |-> "return", value |-> NoneValue, publish |-> {}]}

\* Task.run: the dependency injection, the call of the body, and the default
\* Result for a body that returns None.  Yields how the call ended
\* ("return" or "raise"), the value, whether the body was invoked, and the
\* mapping afterwards.
TaskRun(task, res, b) ==
    IF Unsatisfied(task, res) # {}
    THEN LET i == CHOOSE k \in Unsatisfied(task, res) :
                    \A j \in Unsatisfied(task, res) : k <= j
         IN [how |-> "raise",
             value |-> ExceptionValue("ValueError",
                          <<"caught in", task.name,
                            "could not satisfy dependency", task.params[i].name>>),
             invoked |-> FALSE, resources |-> res]
    ELSE [how |-> b.how,
          value |-> IF b.how = "return" /\ b.value.class = "None"
                    THEN Default(task.result_type)
                    ELSE b.value,
          invoked |-> TRUE, resources |-> res \cup b.publish]

----------------------------------------------------------------------------
(* Registration (grader/task/registrar.py) *)

PyBool(b) == [class |-> "bool", bool |-> b]
PySet(items) == [class |-> "set", items |-> items]

\* bool(value): what filter(None, ...) keeps.
Truthy(value) ==
    CASE value.class = "NoneType" -> FALSE
      [] value.class = "bool" -> value.bool
      [] value.class = "int" -> value.int # 0
      [] value.class = "Decimal" -> value.value # 0
      [] value.class = "set" -> value.items # {}
      [] value.class = "str" -> value.str # ""
      [] OTHER -> TRUE

is_some(value) == value # PyNone

\* first_some: next(filter(None, args)), or None when the filter is empty.
first_some(args) ==
    IF \E i \in 1..Len(args) : Truthy(args[i])
    THEN args[CHOOSE i \in 1..Len(args) :
                /\ Truthy(args[i])
                /\ \A j \in 1..(i - 1) : ~Truthy(args[j])]
    ELSE PyNone

\* underwrite: the destination, with the keys of the source it lacks.
underwrite(source, destination) ==
    [key \in DOMAIN source \cup DOMAIN destination |->
        IF key \in DOMAIN destination THEN destination[key] ELSE source[key]]

\* The items of a dict as a mapping from its keys.
Mapping(items) ==
    [key \in {item[1] : item \in items} |->
        (CHOOSE item \in items : item[1] = key)[2]]

\* Dependencies.normalize_from_details: None gives the empty set, a string
\* the set of it, a set itself, anything else set(value).
normalize_from_details(name, details) ==
    LET value == Pop(details, name)
    IN CASE value.class = "NoneType" -> {}
         [] value.class = "str" -> {value.str}
         [] value.class = "set" -> value.items
         [] OTHER -> {value.items[i] : i \in 1..Len(value.items)}

\* Dependencies.from_details
from_details(details) ==
    [passing |-> normalize_from_details("passing", details),
     complete |-> normalize_from_details("complete", details)]

\* TaskRegistrar._resolve_name
resolve_name(runnable, details) ==
    IF is_some(Pop(details, "name")) THEN Pop(details, "name")
    ELSE IF is_some(runnable.qualname) THEN runnable.qualname
    ELSE Raised("GraderException")

\* TaskRegistrar._resolve_description
resolve_description(runnable, details) ==
    IF Truthy(Pop(details, "description")) THEN Pop(details, "description")
    ELSE runnable.doc

\* TaskRegistrar._resolve_tags: details.pop("tags", set()) has to be a set.
resolve_tags(details) ==
    IF "tags" \notin DOMAIN details THEN PySet({})
    ELSE IF details["tags"].class = "set" THEN details["tags"]
    ELSE Raised("GraderException")

\* The fields of the dataclass Task, which are the keywords Task(...) takes.
TaskFields ==
    {"name", "description", "dependencies", "runnable", "details", "graded",
     "weight", "source", "tags", "result_type"}

\* The details without the keys that registration has popped.
Popped(keys, details) == Restrict(details, DOMAIN details \ keys)

\* The attributes every profile has from TaskProfile.
TaskProfile ==
    [details |-> PyNone, graded |-> PyNone, weight |-> PyNone, tags |-> PyNone]

\* Decimal(value) for a number
ToDecimal(value) == IF value.class = "Decimal" THEN value ELSE Decimal(value.int)

\* The keyword arguments of Task(...) in _register_with_profile, evaluated
\* in order until one raises: what was evaluated, and how the evaluation
\* ended.  The details lose each key as it is popped.
ProfileArguments(runnable, details, profile) ==
    LET tags == resolve_tags(details)
        name == resolve_name(runnable, details)
        first == [name |-> name,
                  description |-> resolve_description(runnable, details),
                  dependencies |-> from_details(details),
                  runnable |-> runnable,
                  graded |-> first_some(<<Pop(details, "graded"), profile.graded,
                                         PyBool(TRUE)>>),
                  weight |-> ToDecimal(first_some(<<Pop(details, "weight"), profile.weight,
                                                   PyInt(1)>>))]
        points == first_some(<<Pop(details, "points"), profile.points>>)
        rest == Popped({"tags", "name", "description", "passing", "complete",
                        "graded", "weight", "points"}, details)
        second == [points |-> IF is_some(points) THEN ToDecimal(points) ELSE PyNone,
                   source |-> PyStr("tests.py:1"),
                   tags |-> IF profile.tags # PyNone
                            THEN PySet(tags.items \cup profile.tags.items)
                            ELSE tags,
                   result_type |-> profile.result_type,
                   details |-> IF profile.details # PyNone
                               THEN underwrite(Mapping(profile.details.items), rest)
                               ELSE rest]
    IN IF tags.class = "raised" THEN [arguments |-> <<>>, outcome |-> tags]
       ELSE IF name.class = "raised" THEN [arguments |-> <<>>, outcome |-> name]
       ELSE IF "points" \notin DOMAIN profile
       THEN [arguments |-> first, outcome |-> Raised("AttributeError")]
       ELSE [arguments |-> first @@ second, outcome |-> Returned(PyNone)]

\* The keyword arguments of Task(...) in _register_with_result_type.
ResultTypeArguments(runnable, details, result_type) ==
    LET name == resolve_name(runnable, details)
        tags == resolve_tags(details)
        graded == IF "graded" \in DOMAIN details THEN details["graded"] ELSE PyBool(TRUE)
        weight == IF "weight" \in DOMAIN details THEN details["weight"] ELSE PyInt(1)
        points == Pop(details, "points")
        first == [name |-> name,
                  description |-> resolve_description(runnable, details),
                  dependencies |-> from_details(details),
                  runnable |-> runnable,
                  graded |-> graded,
                  weight |-> ToDecimal(weight),
                  points |-> IF is_some(points) THEN ToDecimal(points) ELSE PyNone,
                  source |-> PyStr("tests.py:1")]
        second == [tags |-> tags,
                   result_type |-> result_type,
                   details |-> Popped({"tags", "name", "description", "passing", "complete",
                                       "graded", "weight", "points"}, details)]
    IN IF name.class = "raised" THEN [arguments |-> <<>>, outcome |-> name]
       ELSE IF tags.class = "raised" THEN [arguments |-> first, outcome |-> tags]
       ELSE [arguments |-> first @@ second, outcome |-> Returned(PyNone)]

\* Task(**keywords): the dataclass takes its fields and nothing else.
TaskInit(keywords) ==
    IF DOMAIN keywords = TaskFields
    THEN Returned([name |-> keywords.name.str,
                   dependencies |-> keywords.dependencies,
                   tags |-> keywords.tags.items,
                   result_type |-> keywords.result_type,
                   params |-> keywords.runnable.params,
                   source |-> keywords.source.str])
    ELSE Raised("TypeError")

\* A call of a registrar as far as Task(...): the arguments evaluated, and
\* the task made or the exception raised.
Registering(inputs, evaluated) ==
    [class |-> "registration",
     details |-> inputs.details,
     profile |-> inputs.profile,
     arguments |-> evaluated.arguments,
     outcome |-> IF evaluated.outcome.class = "raised" THEN evaluated.outcome
                 ELSE TaskInit(evaluated.arguments)]

----------------------------------------------------------------------------
(* TaskCollection *)

NoError == [type |-> None, message |-> <<>>, cycle |-> {}]

NoLast == [how |-> "none", pos |-> 0, value |-> NoneValue]

\* Nothing constructed, dumped or loaded yet.
NoObject == [class |-> None]

\* TaskCollection.__init__, and a Grader not yet run.
Init ==
    /\ tasks = <<>>
    /\ pushed = <<>>
    /\ phase = "register"
    /\ options = [tags |-> NoSet, tasks |-> NoSet]
    /\ filter = [tags |-> NoSet, task_names |-> NoSet, related_task_names |-> NoSet]
    /\ idx = 0
    /\ report = ReportCreate
    /\ resources = {}
    /\ invoked = <<>>
    /\ error = NoError
    /\ last = NoLast
    /\ problem = ProblemShort
    /\ original = NoObject
    /\ data = NoObject
    /\ loaded = NoObject
    /\ registration = NoObject
    /\ report_file = NoObject
    /\ new_report = NoObject
    /\ amended = NoObject

\* A variant of push that appends without sorting.
PushList_Unsorted(list, task) == Append(list, task)

\* A variant of push that leaves the appended list in reverse.
PushOrder_Reversed(list, task) ==
    [k \in 1..(Len(list) + 1) |-> Len(list) + 2 - k]

\* A variant of push that puts the task at the front of the list.
PushOrder_Front(list, task) ==
    [k \in 1..(Len(list) + 1) |-> IF k = 1 THEN Len(list) + 1 ELSE k - 1]

\* self.tasks.append(task); topological_sort(self.tasks): the arrangement
\* push leaves, as the positions of the appended list in their new order.
\* A sort that fails leaves the list as appended.
PushOrder(list, task) ==
    LET sorted == topological_sort(Append(list, task))
    IN IF sorted.ok THEN sorted.order ELSE [k \in 1..(Len(list) + 1) |-> k]

\* A variant of push whose sort rebuilds the list from a mapping of the
\* names to the tasks.
PushList_ByName(list, task) ==
    LET appended == Append(list, task)
        order == PushOrder(list, task)
    IN [k \in 1..Len(appended) |-> Lookup(appended, appended[order[k]].name)]

\* The list after TaskCollection.push.
PushList(list, task) ==
    LET appended == Append(list, task)
        order == PushOrder(list, task)
    IN [k \in 1..Len(appended) |-> appended[order[k]]]

\* Where the pushed task, appended as the last, stands after the sort.
PushedAt(list, task) ==
    CHOOSE k \in 1..(Len(list) + 1) : PushOrder(list, task)[k] = Len(list) + 1

\* The ordinals of the pushes, moved along with the tasks by the sort.
PushOrdinals(list, ordinals, task) ==
    LET appended == Append(ordinals, Len(ordinals) + 1)
        order == PushOrder(list, task)
    IN [k \in 1..Len(appended) |-> appended[order[k]]]

\* A variant of push that lets a failed sort pass in silence.
Push_NoRaise(task) ==
    /\ phase = "register"
    /\ Len(tasks) < MaxTasks
    /\ tasks' = PushList(tasks, task)
    /\ pushed' = PushOrdinals(tasks, pushed, task)
    /\ last' = [how |-> "pushed", pos |-> PushedAt(tasks, task), value |-> NoneValue]
    /\ UNCHANGED <<phase, error, options, filter, idx, report, resources, invoked, problem, serial, registration, amendment>>

\* TaskCollection.push
Push(task) ==
    /\ phase = "register"
    /\ Len(tasks) < MaxTasks
    /\ tasks' = PushList(tasks, task)
    /\ pushed' = PushOrdinals(tasks, pushed, task)
    /\ last' = [how |-> "pushed", pos |-> PushedAt(tasks, task), value |-> NoneValue]
    /\ LET sorted == topological_sort(Append(tasks, task))
       IN IF sorted.ok
          THEN /\ phase' = phase
               /\ error' = error
          ELSE /\ phase' = "regfail"
               /\ error' = [type |-> "GraderException",
                             message |-> <<"cyclic dependencies">>,
                             cycle |-> sorted.cycle]
    /\ UNCHANGED <<options, filter, idx, report, resources, invoked, problem, serial, registration, amendment>>

\* The GraderException of a registration under a name already taken.
DuplicateError(name) ==
    [type |-> "GraderException",
     message |-> <<"Duplicate task name", name>>,
     cycle |-> {}]

\* Registrar._register (task/registrar.py): a task whose name an existing
\* task has is turned away with a GraderException before anything is
\* pushed; any other task is pushed.
Register(task) ==
    /\ phase = "register"
    /\ Len(tasks) < MaxTasks
    /\ IF HasTask(tasks, task.name)
       THEN /\ phase' = "regfail"
            /\ error' = DuplicateError(task.name)
            /\ last' = [how |-> "rejected", pos |-> 0, value |-> NoneValue]
            /\ UNCHANGED <<tasks, pushed, options, filter, idx, report, resources, invoked, problem, serial, registration, amendment>>
       ELSE Push(task)

\* The exception that leaves a registrar.
RegistrationError(outcome) == [type |-> outcome.type, message |-> <<>>, cycle |-> {}]

\* What a registrar does with the arguments it evaluated: the exception of
\* the evaluation or of Task(...) leaves it, and a task that was made is
\* pushed (self.tasks.push(Task(...))).
Registered(made) ==
    /\ registration' = made
    /\ IF made.outcome.class = "raised"
       THEN /\ phase' = "regfail"
            /\ error' = RegistrationError(made.outcome)
            /\ last' = [how |-> "rejected", pos |-> 0, value |-> NoneValue]
            /\ UNCHANGED <<tasks, pushed>>
       ELSE LET task == made.outcome.value
                sorted == topological_sort(Append(tasks, task))
            IN /\ Len(tasks) < MaxTasks
               /\ tasks' = PushList(tasks, task)
               /\ pushed' = PushOrdinals(tasks, pushed, task)
               /\ last' = [how |-> "pushed", pos |-> PushedAt(tasks, task),
                           value |-> NoneValue]
               /\ IF sorted.ok
                  THEN UNCHANGED <<phase, error>>
                  ELSE /\ phase' = "regfail"
                       /\ error' = [type |-> "GraderException",
                                     message |-> <<"cyclic dependencies">>,
                                     cycle |-> sorted.cycle]
    /\ UNCHANGED <<options, filter, idx, report, resources, invoked, problem, serial,
                   amendment>>

\* TaskRegistrar._register_with_profile
RegisterWithProfile(runnable, details, profile) ==
    /\ phase = "register"
    /\ Registered(Registering([details |-> details, profile |-> profile],
                              ProfileArguments(runnable, details, profile)))

\* TaskRegistrar._register_with_result_type
RegisterWithResultType(runnable, details, result_type) ==
    /\ phase = "register"
    /\ Registered(Registering([details |-> details,
                               profile |-> [result_type |-> result_type]],
                              ResultTypeArguments(runnable, details, result_type)))

\* class Setup(TaskProfile), class Build(TaskProfile)
Setup == [TaskProfile EXCEPT !.graded = PyBool(FALSE)] @@ [result_type |-> "SetupResult"]

Build == [TaskProfile EXCEPT !.graded = PyBool(FALSE)] @@ [result_type |-> "BuildResult"]

\* @grader[Setup](tags={"sanity"}) def import_submission(submission, resources)
ExampleRegistration ==
    [runnable |-> [qualname |-> PyStr("import_submission"),
                   doc |-> PyStr("Add the submission to resources."),
                   params |-> ParamsOf("a")],
     details |-> [tags |-> PySet({"sanity"})],
     profile |-> Setup]

----------------------------------------------------------------------------
(* Grader.run *)

\* The resources a run starts with.
InitialResources == {"context", "submission", "problem", "resources"}

\* Grader.run up to the loop: the resources, the filter, the empty report.
StartRun(opts) ==
    /\ phase = "register"
    /\ phase' = "running"
    /\ options' = opts
    /\ filter' = TaskFilterInit(tasks, opts, problem)
    /\ idx' = 0
    /\ report' = ReportCreate
    /\ resources' = InitialResources
    /\ invoked' = <<>>
    /\ last' = NoLast
    /\ pushed' = <<>>
    /\ UNCHANGED <<tasks, error, problem, serial, registration, amendment>>

\* Variants of the loop: walking the list from its end, and starting over
\* at the task just processed.
Position_Reversed == Len(tasks) - idx

Position_Again == IF idx > 0 THEN idx ELSE 1

\* for task in self.tasks: the position the loop is at, and the task there.
Position == idx + 1

Current == tasks[Position]

InLoop == phase = "running" /\ idx < Len(tasks)

\* A variant of the type check that also turns a failing Result away.
TypeMatches_Passing(result, task) ==
    result.type = task.result_type /\ result.passing

\* A variant of the type check that compares the classes' kinds.
TypeMatches_ByKind(result, task) == KindOf(result.type) = KindOf(task.result_type)

\* The type check of a Result against the task's declared class.
TypeMatches(result, task) == result.type = task.result_type

\* A variant of the try statement without its except clause: only a
\* returned Result is taken.
Caught_ReturnedOnly(ran) == ran.how = "return" /\ ran.value.class = "Result"

\* try: result = task.run(resources) / except Result as r: result = r.
\* Whether the outcome of Task.run gives the loop a result.
Caught(ran) == ran.value.class = "Result"

\* result.task = task
Attach(result, position) ==
    [type |-> result.type, complete |-> result.complete,
     passing |-> result.passing, error |-> result.error, task |-> position]

\* A variant of the GraderException that leaves the task's name out.
MismatchError_NoName(task) ==
    [type |-> "GraderException",
     message |-> <<"expected result type", KindOf(task.result_type),
                   "in", task.source>>,
     cycle |-> {}]

\* raise GraderException(f"expected result type {task.result_type.kind} ..."):
\* the GraderException of a Result of the wrong class.  The message is built
\* first, from the class attribute kind of the declared class; a declared
\* class without one ends the formatting with an AttributeError.
MismatchError(task) ==
    IF HasKind(task.result_type)
    THEN [type |-> "GraderException",
          message |-> <<"expected result type", KindOf(task.result_type),
                        "from", task.name, "in", task.source>>,
          cycle |-> {}]
    ELSE [type |-> "AttributeError",
          message |-> <<"type object", task.result_type, "has no attribute", "kind">>,
          cycle |-> {}]

\* An exception leaving Grader.run as it was raised.
Propagated(exception) ==
    [type |-> exception.type, message |-> exception.message, cycle |-> {}]

\* Variants of the iteration on a hidden task: one that falls through and
\* records an incomplete Result, one that leaves the partial flag alone.
Hide_Recording ==
    /\ InLoop
    /\ ~TaskFilterCall(filter, Current)
    /\ report' = ReportAdd([report EXCEPT !.partial = TRUE],
                           Attach(Incomplete(Current.result_type), Position))
    /\ idx' = idx + 1
    /\ last' = [how |-> "hidden", pos |-> Position, value |-> NoneValue]
    /\ UNCHANGED <<tasks, pushed, phase, options, filter, resources, invoked, error, problem, serial, registration, amendment>>

Hide_NoPartial ==
    /\ InLoop
    /\ ~TaskFilterCall(filter, Current)
    /\ idx' = idx + 1
    /\ last' = [how |-> "hidden", pos |-> Position, value |-> NoneValue]
    /\ UNCHANGED <<tasks, pushed, phase, options, filter, report, resources, invoked, error, problem, serial, registration, amendment>>

\* One iteration on a task the filter hides.
Hide ==
    /\ InLoop
    /\ ~TaskFilterCall(filter, Current)
    /\ report' = [report EXCEPT !.partial = TRUE]
    /\ idx' = idx + 1
    /\ last' = [how |-> "hidden", pos |-> Position, value |-> NoneValue]
    /\ UNCHANGED <<tasks, pushed, phase, options, filter, resources, invoked, error, problem, serial, registration, amendment>>

\* A variant of the iteration that marks a task incomplete when a dependency
\* of it, of either kind, has no passing Result.
MarkIncomplete_AnyFailing ==
    /\ InLoop
    /\ TaskFilterCall(filter, Current)
    /\ \E d \in All(Current.dependencies) :
          ~(InReport(report, d) /\ report.results[d].complete /\ report.results[d].passing)
    /\ report' = ReportAdd(report, Attach(Incomplete(Current.result_type), Position))
    /\ idx' = idx + 1
    /\ last' = [how |-> "incomplete", pos |-> Position, value |-> NoneValue]
    /\ UNCHANGED <<tasks, pushed, phase, options, filter, resources, invoked, error, problem, serial, registration, amendment>>

\* A variant of the iteration on a task with unfulfilled dependencies that
\* fails with a KeyError when the report has no Result for one of them.
MarkIncomplete_MissingRaises ==
    /\ InLoop
    /\ TaskFilterCall(filter, Current)
    /\ ~fulfills_dependencies(Current, report)
    /\ IF \E d \in All(Current.dependencies) : ~InReport(report, d)
       THEN /\ phase' = "aborted"
            /\ error' = [type |-> "KeyError", message |-> <<>>, cycle |-> {}]
            /\ last' = [how |-> "unresolved", pos |-> Position, value |-> NoneValue]
            /\ UNCHANGED <<report, idx>>
       ELSE /\ report' = ReportAdd(report, Attach(Incomplete(Current.result_type), Position))
            /\ idx' = idx + 1
            /\ last' = [how |-> "incomplete", pos |-> Position, value |-> NoneValue]
            /\ UNCHANGED <<phase, error>>
    /\ UNCHANGED <<tasks, pushed, options, filter, resources, invoked, problem, serial, registration, amendment>>

\* One iteration on a visible task whose dependencies are not fulfilled.
MarkIncomplete ==
    /\ InLoop
    /\ TaskFilterCall(filter, Current)
    /\ ~fulfills_dependencies(Current, report)
    /\ report' = ReportAdd(report, Attach(Incomplete(Current.result_type), Position))
    /\ idx' = idx + 1
    /\ last' = [how |-> "incomplete", pos |-> Position, value |-> NoneValue]
    /\ UNCHANGED <<tasks, pushed, phase, options, filter, resources, invoked, error, problem, serial, registration, amendment>>

\* A variant of the iteration that runs a visible task without looking at
\* its dependencies.
Execute_Unchecked ==
    /\ InLoop
    /\ TaskFilterCall(filter, Current)
    /\ \E b \in Attempts(Current, resources) :
       LET ran == TaskRun(Current, resources, b)
              caught == Caught(ran)
          IN /\ resources' = ran.resources
             /\ invoked' = IF ran.invoked THEN Append(invoked, Position) ELSE invoked
             /\ last' = [how |-> IF ran.invoked
                                 THEN (IF ran.how = "return" THEN "returned" ELSE "raised")
                                 ELSE "unresolved",
                         pos |-> Position,
                         value |-> IF ran.invoked THEN b.value ELSE ran.value]
             /\ IF ~caught
                THEN /\ phase' = "aborted"
                     /\ error' = Propagated(ran.value)
                     /\ UNCHANGED <<report, idx>>
                ELSE IF ~TypeMatches(ran.value, Current)
                THEN /\ phase' = "aborted"
                     /\ error' = MismatchError(Current)
                     /\ UNCHANGED <<report, idx>>
                ELSE /\ report' = ReportAdd(report, Attach(ran.value, Position))
                     /\ idx' = idx + 1
                     /\ UNCHANGED <<phase, error>>
    /\ UNCHANGED <<tasks, pushed, options, filter, problem, serial, registration, amendment>>

\* One iteration on a visible task whose dependencies are fulfilled: the
\* task is run; a raised Result is taken as the result; the result is
\* checked against the declared class and added to the report.  Any other
\* exception, and the GraderException of the check, leave Grader.run.
Execute ==
    /\ InLoop
    /\ TaskFilterCall(filter, Current)
    /\ fulfills_dependencies(Current, report)
    /\ \E b \in Attempts(Current, resources) :
       LET ran == TaskRun(Current, resources, b)
              caught == Caught(ran)
          IN /\ resources' = ran.resources
             /\ invoked' = IF ran.invoked THEN Append(invoked, Position) ELSE invoked
             /\ last' = [how |-> IF ran.invoked
                                 THEN (IF ran.how = "return" THEN "returned" ELSE "raised")
                                 ELSE "unresolved",
                         pos |-> Position,
                         value |-> IF ran.invoked THEN b.value ELSE ran.value]
             /\ IF ~caught
                THEN /\ phase' = "aborted"
                     /\ error' = Propagated(ran.value)
                     /\ UNCHANGED <<report, idx>>
                ELSE IF ~TypeMatches(ran.value, Current)
                THEN /\ phase' = "aborted"
                     /\ error' = MismatchError(Current)
                     /\ UNCHANGED <<report, idx>>
                ELSE /\ report' = ReportAdd(report, Attach(ran.value, Position))
                     /\ idx' = idx + 1
                     /\ UNCHANGED <<phase, error>>
    /\ UNCHANGED <<tasks, pushed, options, filter, problem, serial, registration, amendment>>

\* return report
Return ==
    /\ phase = "running"
    /\ idx = Len(tasks)
    /\ phase' = "done"
    /\ UNCHANGED <<tasks, pushed, options, filter, idx, report, resources, invoked, error, last, problem, serial, registration, amendment>>

Next ==
    \/ \E task \in TaskInputs : Push(task)
    \/ \E task \in TaskInputs : Register(task)
    \/ \E call \in {ExampleRegistration} :
          RegisterWithProfile(call.runnable, call.details, call.profile)
    \/ \E opts \in OptionInputs : StartRun(opts)
    \/ Hide
    \/ MarkIncomplete
    \/ Execute
    \/ Return

Spec == Init /\ [][Next]_vars

----------------------------------------------------------------------------
(* Properties *)

Range(seq) == {seq[i] : i \in 1..Len(seq)}

NoDuplicates(seq) == \A i, j \in 1..Len(seq) : seq[i] = seq[j] => i = j

Mentions(message, word) == \E i \in 1..Len(message) : message[i] = word

Visible(i) == TaskFilterCall(filter, tasks[i])

InRun == phase \in {"running", "done", "aborted"}

\* The names a name depends on, directly or through other tasks of the list.
RECURSIVE Reachable(_, _, _)
Reachable(list, frontier, seen) ==
    IF frontier = {} THEN seen
    ELSE LET name == CHOOSE n \in frontier : TRUE
             next == UNION {All(list[i].dependencies) :
                              i \in {j \in 1..Len(list) : list[j].name = name}}
         IN Reachable(list, (frontier \cup next) \ (seen \cup {name}), seen \cup {name})

DependsOn(list, i) ==
    UNION {Reachable(list, {d}, {}) : d \in All(list[i].dependencies)}

\* No task of the list depends on its own name, directly or transitively.
Acyclic(list) == \A i \in 1..Len(list) : list[i].name \notin DependsOn(list, i)

\* C1: after any pushes of tasks with acyclic dependencies, every task of the
\* collection named in a task's passing or complete set stands before it.
C1_TopologicalOrder ==
    Acyclic(tasks) =>
        \A i, j \in 1..Len(tasks) :
            tasks[j].name \in All(tasks[i].dependencies) => j < i

\* C1 witness: a task pushed after a task that names it (a forward
\* reference) has been moved before its dependent.
C1_Witness ==
    /\ phase = "register"
    /\ last.how = "pushed"
    /\ last.pos < Len(tasks)
    /\ \E i \in 1..Len(tasks) :
          /\ last.pos < i
          /\ tasks[last.pos].name \in All(tasks[i].dependencies)

\* A dependency of the task is unmet in the report.
Unmet(task, rep) ==
    \/ \E d \in task.dependencies.passing :
          ~(InReport(rep, d) /\ rep.results[d].complete /\ rep.results[d].passing)
    \/ \E d \in task.dependencies.complete :
          ~(InReport(rep, d) /\ rep.results[d].complete)

\* C2: the iteration on a visible task with an unmet dependency records
\* an incomplete Result of the declared class (complete and passing both
\* false) under the task's name and does not invoke the body.
C2_UnmetIsIncomplete ==
    [][(InLoop /\ Visible(idx + 1) /\ Unmet(tasks[idx + 1], report)) =>
          /\ InReport(report', tasks[idx + 1].name)
          /\ report'.results[tasks[idx + 1].name] =
                [type |-> tasks[idx + 1].result_type, complete |-> FALSE,
                 passing |-> FALSE, error |-> None, task |-> idx + 1]
          /\ invoked' = invoked
          /\ phase' = "running"]_vars

\* C2 witness: a task has been recorded incomplete, uninvoked, after a
\* passing-dependency of it completed without passing.
C2_Witness ==
    /\ last.how = "incomplete"
    /\ last.pos \notin Range(invoked)
    /\ ~report.results[tasks[last.pos].name].complete
    /\ \E d \in tasks[last.pos].dependencies.passing :
          /\ InReport(report, d)
          /\ report.results[d].complete
          /\ ~report.results[d].passing

\* C3: bodies are invoked in the order of the collection restricted to the
\* visible tasks, and when a body is invoked every declared dependency of it
\* that is in the collection stands earlier and has its Result recorded or
\* is hidden.
C3_InvocationOrder ==
    [][InRun' =>
          /\ \A k \in 1..(Len(invoked') - 1) : invoked'[k] < invoked'[k + 1]
          /\ \A k \in 1..Len(invoked') : TaskFilterCall(filter', tasks'[invoked'[k]])
          /\ invoked' # invoked =>
                LET at == invoked'[Len(invoked')]
                IN /\ invoked' = Append(invoked, at)
                   /\ \A j \in 1..Len(tasks) :
                         tasks[j].name \in All(tasks[at].dependencies) =>
                            /\ j < at
                            /\ InReport(report, tasks[j].name) \/ ~Visible(j)]_vars

\* C3 witness: two bodies have been invoked, the second a dependent of the
\* first, with a hidden task between them.
C3_Witness ==
    /\ Len(invoked) >= 2
    /\ tasks[invoked[1]].name \in All(tasks[invoked[2]].dependencies)
    /\ \E j \in 1..Len(tasks) : invoked[1] < j /\ j < invoked[2] /\ ~Visible(j)

\* C4: a run is a single pass: an iteration invokes at most the body of the
\* task it is at, no body is invoked twice, a recorded Result is only
\* written by the iteration of a task of that name, and the report never
\* holds more Results than tasks were gone through.
C4_SinglePass ==
    [][phase = "running" =>
          /\ NoDuplicates(invoked')
          /\ invoked' # invoked => invoked' = Append(invoked, idx + 1)
          /\ idx' = idx \/ idx' = idx + 1
          /\ Cardinality(DOMAIN report'.results) <= idx'
          /\ \A n \in DOMAIN report'.results :
                (~InReport(report, n) \/ report'.results[n] # report.results[n]) =>
                    /\ idx' = idx + 1
                    /\ n = tasks[idx + 1].name
                    /\ report'.results[n].task = idx + 1]_vars

\* C4 witness: a run has returned with a completed failing Result and an
\* incomplete one in its report, each body invoked once at most.
C4_Witness ==
    /\ phase = "done"
    /\ Len(invoked) >= 1
    /\ \E n, m \in DOMAIN report.results :
          /\ report.results[n].complete /\ ~report.results[n].passing
          /\ ~report.results[m].complete
          /\ \E i \in 1..Len(tasks) : tasks[i].name = m /\ i \notin Range(invoked)

\* C5: the iteration on a hidden task records nothing, invokes nothing and
\* goes on to the next task; no Result in the report belongs to a hidden
\* task, and a run only returns once the whole collection is gone through.
C5_HiddenSkipped ==
    [][/\ (InLoop /\ ~Visible(idx + 1)) =>
              /\ report'.results = report.results
              /\ invoked' = invoked
              /\ phase' = "running"
              /\ idx' = idx + 1
       /\ InRun' =>
              \A n \in DOMAIN report'.results :
                  TaskFilterCall(filter', tasks'[report'.results[n].task])
       /\ phase' = "done" => idx' = Len(tasks')]_vars

\* C5 witness: a run has returned, with no Result for a hidden task and a
\* Result for a visible task that stands after it.
C5_Witness ==
    /\ phase = "done"
    /\ \E i, j \in 1..Len(tasks) :
          /\ i < j
          /\ ~Visible(i) /\ ~InReport(report, tasks[i].name)
          /\ Visible(j) /\ InReport(report, tasks[j].name)

\* C6: when a run returns, the report is partial exactly when some task of
\* the collection is hidden by the filter.
C6_PartialIffHidden ==
    phase = "done" =>
        (report.partial <=> \E i \in 1..Len(tasks) : ~Visible(i))

\* C6 witness: a run has returned a partial report that holds a Result.
C6_Witness ==
    /\ phase = "done"
    /\ report.partial
    /\ DOMAIN report.results # {}

Mismatched == phase = "aborted" /\ error.type = "GraderException"

Missing(i) ==
    {k \in 1..Len(tasks[i].params) :
        /\ ~tasks[i].params[k].has_default
        /\ tasks[i].params[k].name \notin resources}

\* C9: the iteration on a visible task with fulfilled dependencies and a
\* parameter that has no default and is no key of the resources ends the
\* run with a ValueError naming the task and the parameter; the body is
\* not invoked and no Result is recorded.
C9_UnresolvedAborts ==
    [][(/\ InLoop
        /\ Visible(idx + 1)
        /\ ~Unmet(tasks[idx + 1], report)
        /\ Missing(idx + 1) # {}) =>
           /\ phase' = "aborted"
           /\ error'.type = "ValueError"
           /\ Mentions(error'.message, tasks[idx + 1].name)
           /\ \E k \in Missing(idx + 1) :
                 Mentions(error'.message, tasks[idx + 1].params[k].name)
           /\ invoked' = invoked
           /\ report' = report
           /\ idx' = idx]_vars

\* C9 witness: a run ended by a ValueError of Task.run after an earlier
\* task was recorded.
C9_Witness ==
    /\ phase = "aborted"
    /\ error.type = "ValueError"
    /\ last.how = "unresolved"
    /\ last.pos \notin Range(invoked)
    /\ DOMAIN report.results # {}

\* C10 as claimed: an exception of a body that is no Result ends the run,
\* is recorded as no Result, and leaves the engine carrying the task's
\* name and source.
C10_Claim ==
    (last.how = "raised" /\ last.value.class = "Exception") =>
        /\ phase = "aborted"
        /\ idx = last.pos - 1
        /\ Mentions(error.message, tasks[last.pos].name)
        /\ Mentions(error.message, tasks[last.pos].source)

\* The latest step invoked the body of the task at the position the loop was
\* at, and the body produced (returned or raised) a Result of the class the
\* task declares.
ProducedDeclared ==
    /\ InLoop
    /\ last'.how \in {"returned", "raised"}
    /\ last'.pos = idx + 1
    /\ last'.value.class = "Result"
    /\ last'.value.type = tasks[idx + 1].result_type

\* C11: an iteration whose body produces a failing Result of the declared
\* class records it under the task's name and goes on to the next task, the
\* run still running; a run is never ended by a Result of the declared
\* class; and at the end of the collection the only step is the return of
\* the report.
C11_FailingRecorded ==
    [][/\ (ProducedDeclared /\ ~last'.value.passing) =>
              /\ phase' = "running"
              /\ idx' = idx + 1
              /\ tasks' = tasks
              /\ InReport(report', tasks[idx + 1].name)
              /\ report'.results[tasks[idx + 1].name].task = idx + 1
              /\ ~report'.results[tasks[idx + 1].name].passing
              /\ report'.results[tasks[idx + 1].name].complete = last'.value.complete
       /\ (phase = "running" /\ phase' = "aborted") => ~ProducedDeclared
       /\ (phase = "running" /\ idx = Len(tasks)) =>
              (phase' = "done" /\ report' = report)]_vars

\* C11 witness: a run has returned a report that holds a failing Result a
\* body produced and the Result of a body invoked after it.
C11_Witness ==
    /\ phase = "done"
    /\ \E i, j \in Range(invoked) :
          /\ i < j
          /\ report.results[tasks[i].name].task = i
          /\ report.results[tasks[i].name].complete
          /\ ~report.results[tasks[i].name].passing
          /\ report.results[tasks[j].name].task = j

\* C12: when the body raises a Result of the declared class, the Result
\* recorded under the task's name has the raised one's class and its
\* complete, passing and error values, and the run goes on, exactly as for
\* a returned one.
C12_RaisedIsRecorded ==
    [][(ProducedDeclared /\ last'.how = "raised") =>
          /\ phase' = "running"
          /\ idx' = idx + 1
          /\ error' = error
          /\ InReport(report', tasks[idx + 1].name)
          /\ report'.results[tasks[idx + 1].name] =
                [type |-> last'.value.type, complete |-> last'.value.complete,
                 passing |-> last'.value.passing, error |-> last'.value.error,
                 task |-> idx + 1]
          /\ report'.partial = report.partial]_vars

\* C12 witness: the Result a body raised, failing and carrying an Error, is
\* in the report under the task's name.
C12_Witness ==
    /\ phase = "running"
    /\ last.how = "raised"
    /\ last.value.class = "Result"
    /\ last.value.error # None
    /\ InReport(report, tasks[last.pos].name)
    /\ report.results[tasks[last.pos].name].error = last.value.error
    /\ report.results[tasks[last.pos].name].task = last.pos

\* C13: when the body returns None, the Result recorded under the task's
\* name is the default one of the declared class, complete and passing,
\* and the run goes on: the class check never turns it away.
C13_NoneIsDefault ==
    [][(/\ InLoop
        /\ last'.how = "returned"
        /\ last'.pos = idx + 1
        /\ last'.value.class = "None") =>
           /\ phase' = "running"
           /\ error' = error
           /\ idx' = idx + 1
           /\ InReport(report', tasks[idx + 1].name)
           /\ report'.results[tasks[idx + 1].name] =
                 [type |-> tasks[idx + 1].result_type, complete |-> TRUE,
                  passing |-> TRUE, error |-> None, task |-> idx + 1]]_vars

\* C13 witness: a body returned None and a dependent that names the task
\* as a passing-dependency has had its body invoked.
C13_Witness ==
    /\ Len(invoked) >= 2
    /\ last.how = "returned"
    /\ last.value.class = "None"
    /\ report.results[tasks[last.pos].name].passing
    /\ \E i \in Range(invoked) :
          /\ i < last.pos
          /\ tasks[i].name \in tasks[last.pos].dependencies.passing

\* Every task of the list declares no dependency.
DependencyFree(list) == \A i \in 1..Len(list) : All(list[i].dependencies) = {}

\* C14: when no task of the collection declares a dependency, the tasks
\* stand in the order they were pushed in.
C14_DependencyFreeOrder ==
    (phase = "register" /\ DependencyFree(tasks)) =>
        \A i \in 1..Len(tasks) : pushed[i] = i

\* C14 witness: three tasks without dependencies, pushed in another order
\* than that of their names, stand as pushed.
C14_Witness ==
    /\ phase = "register"
    /\ Len(tasks) >= 3
    /\ DependencyFree(tasks)
    /\ tasks[1].name = "c" /\ tasks[2].name = "a" /\ tasks[3].name = "b"
    /\ pushed[1] = 1 /\ pushed[2] = 2 /\ pushed[3] = 3

\* Neither of the tasks at the two positions is a direct or transitive
\* dependency of the other.
Unconstrained(list, i, j) ==
    /\ list[i].name \notin DependsOn(list, j)
    /\ list[j].name \notin DependsOn(list, i)

\* No two tasks of the list have the same name.
DistinctNames(list) ==
    \A i, j \in 1..Len(list) : list[i].name = list[j].name => i = j

OnCycle(list) ==
    {list[i].name : i \in {k \in 1..Len(list) : list[k].name \in DependsOn(list, k)}}

\* C16: a push that closes a dependency cycle fails at once with a
\* GraderException that names every task on the cycle, and a push that
\* does not fail leaves a collection without a cycle.
C16_CycleRejected ==
    [][/\ (phase = "register" /\ tasks' # tasks /\ OnCycle(tasks') # {}) =>
              /\ phase' = "regfail"
              /\ error'.type = "GraderException"
              /\ OnCycle(tasks') \subseteq error'.cycle
       /\ (tasks' # tasks /\ phase' # "regfail") => OnCycle(tasks') = {}]_vars

\* C16 witness: a push has closed a cycle of two tasks and failed naming
\* both, with a third task in the collection that is not named.
C16_Witness ==
    /\ phase = "regfail"
    /\ error.type = "GraderException"
    /\ Cardinality(OnCycle(tasks)) >= 2
    /\ OnCycle(tasks) \subseteq error.cycle
    /\ \E i \in 1..Len(tasks) : tasks[i].name \notin error.cycle

\* C17 as claimed: a push of a task whose name a task of the collection
\* has fails with a GraderException.
C17_Claim ==
    [][\A task \in TaskInputs :
          (Push(task) /\ HasTask(tasks, task.name)) =>
              (phase' = "regfail" /\ error'.type = "GraderException")]_vars

\* C18 as claimed: a push of a task whose name a task of the collection
\* has leaves the collection as it was.
C18_Claim ==
    [][\A task \in TaskInputs :
          (Push(task) /\ HasTask(tasks, task.name)) => tasks' = tasks]_vars

\* C19 as claimed: whatever was registered or pushed, no two tasks of the
\* collection have the same name.
C19_Claim == DistinctNames(tasks)

\* The run has a name filter and no tag filter.
NameFilterOnly == InRun /\ IsNone(filter.tags) /\ ~IsNone(filter.task_names)

\* The requested names that some task of the collection has, and all the
\* names they depend on, directly or transitively, by either kind.
RequestedClosure ==
    UNION {Reachable(tasks, {n}, {}) :
             n \in {m \in Names : /\ Str(m) \in Value(filter.task_names)
                                   /\ HasTask(tasks, m)}}

\* C20 as claimed: with a name filter only, a task is visible exactly when
\* its name is a requested name or a direct or transitive dependency of a
\* requested name that is in the collection.
C20_Claim ==
    NameFilterOnly =>
        \A i \in 1..Len(tasks) : Visible(i) <=> tasks[i].name \in RequestedClosure

\* The run has both a tag filter and a name filter.
BothFilters == InRun /\ ~IsNone(filter.tags) /\ ~IsNone(filter.task_names)

\* C22 as claimed: with both filters, a task is visible exactly when one of
\* its tags is a requested tag and its name is a requested name or a direct
\* or transitive dependency of a requested name.
C22_Claim ==
    BothFilters =>
        \A i \in 1..Len(tasks) :
            Visible(i) <=> /\ \E t \in tasks[i].tags : Str(t) \in Value(filter.tags)
                           /\ tasks[i].name \in RequestedClosure

\* The run was given neither a tag filter nor a name filter.
NoFilterSupplied == IsNone(options.tags) /\ IsNone(options.tasks)

\* C26: in a run, has_effect is false exactly when neither filter was
\* supplied; then every task is visible, and once the run has completed
\* the report holds a Result for every task and is not partial.
C26_NoFilterNoEffect ==
    InRun =>
        /\ ~has_effect(filter) <=> NoFilterSupplied
        /\ NoFilterSupplied =>
              /\ \A i \in 1..Len(tasks) : Visible(i)
              /\ phase = "done" =>
                    /\ \A i \in 1..Len(tasks) : InReport(report, tasks[i].name)
                    /\ ~report.partial

\* A run without filters has completed over tasks of different names.
C26_Witness ==
    /\ phase = "done"
    /\ NoFilterSupplied
    /\ ~has_effect(filter)
    /\ \E i, j \in 1..Len(tasks) : tasks[i].name # tasks[j].name
    /\ \A i \in 1..Len(tasks) : InReport(report, tasks[i].name)
    /\ ~report.partial

----------------------------------------------------------------------------
(* The scope filter on the collection of FilterTests (tests/task.py) *)

\* mock.task(name, passing=..., tags=...)
MockTask(name, passing, tags) ==
    [name |-> name, dependencies |-> [passing |-> passing, complete |-> {}],
     tags |-> tags, result_type |-> "Result", params |-> <<>>, source |-> "testing"]

\* FilterTests.setUp: the tasks in the order they are pushed.
Fixture ==
    << MockTask("a", {}, {"t1", "t2"}),
       MockTask("b", {"a"}, {}),
       MockTask("c", {"a"}, {}),
       MockTask("d", {"b"}, {}),
       MockTask("e", {}, {"t2"}) >>

\* One more task a test may push: tagged, and depending on an untagged task.
ExtraTask == MockTask("f", {"b"}, {"t2"})

\* Namespaces a problem may have, and the filter selections a context may
\* hold for it: plain items, items of this or another namespace, an item
\* with a second separator, the wildcard item.
FilterNamespaces == {"p", "q"}

FilterTagSelections ==
    {NoSet,
     Some({<<"t1">>}),
     Some({<<"t2">>}),
     Some({<<"p", ":", "t1">>, <<"q", ":", "t2">>}),
     Some({<<"t3">>, <<"p", ":", "t2", ":", "x">>, <<"q", ":", "t1">>})}

FilterTaskSelections ==
    {NoSet,
     Some({<<"e">>}),
     Some({<<"d">>}),
     Some({<<"z">>}),
     Some({<<"p", ":", "*">>}),
     Some({<<"p", ":", "d">>, <<"q", ":", "e">>}),
     Some({<<"a">>, <<"b">>})}

FilterOptionInputs == [tags : FilterTagSelections, tasks : FilterTaskSelections]

\* A collection about to be filled, for a problem of either namespace.
FilterInit ==
    /\ tasks = <<>>
    /\ pushed = <<>>
    /\ phase = "register"
    /\ options = [tags |-> NoSet, tasks |-> NoSet]
    /\ filter = [tags |-> NoSet, task_names |-> NoSet, related_task_names |-> NoSet]
    /\ idx = 0
    /\ report = ReportCreate
    /\ resources = {}
    /\ invoked = <<>>
    /\ error = NoError
    /\ last = NoLast
    /\ problem \in FilterNamespaces
    /\ original = NoObject
    /\ data = NoObject
    /\ loaded = NoObject
    /\ registration = NoObject
    /\ report_file = NoObject
    /\ new_report = NoObject
    /\ amended = NoObject

\* How many tasks of setUp have been pushed.
FixturePushed == Cardinality({i \in 1..Len(tasks) : tasks[i].name # ExtraTask.name})

\* self.collection.push(mock.task(...)): the next task of setUp is pushed.
FixturePush ==
    /\ phase = "register"
    /\ FixturePushed < Len(Fixture)
    /\ LET task == Fixture[FixturePushed + 1]
       IN /\ tasks' = PushList(tasks, task)
          /\ pushed' = PushOrdinals(tasks, pushed, task)
          /\ last' = [how |-> "pushed", pos |-> PushedAt(tasks, task), value |-> NoneValue]
    /\ UNCHANGED <<phase, error, options, filter, idx, report, resources, invoked,
                   problem, serial, registration, amendment>>

\* self.collection.push(mock.task("f", ...)): the extra task is pushed, once,
\* before, between or after the tasks of setUp.
ExtraPush ==
    /\ phase = "register"
    /\ ~HasTask(tasks, ExtraTask.name)
    /\ tasks' = PushList(tasks, ExtraTask)
    /\ pushed' = PushOrdinals(tasks, pushed, ExtraTask)
    /\ last' = [how |-> "pushed", pos |-> PushedAt(tasks, ExtraTask), value |-> NoneValue]
    /\ UNCHANGED <<phase, error, options, filter, idx, report, resources, invoked,
                   problem, serial, registration, amendment>>

\* TaskFilter(tasks, context, problem_short): the filter is built over the
\* collection as it stands.
FilterConstruct(opts) ==
    /\ phase = "register"
    /\ phase' = "filtered"
    /\ options' = opts
    /\ filter' = TaskFilterInit(tasks, opts, problem)
    /\ UNCHANGED <<tasks, pushed, idx, report, resources, invoked, error, last,
                   problem, serial, registration, amendment>>

FilterNext ==
    \/ FixturePush
    \/ ExtraPush
    \/ \E opts \in FilterOptionInputs : FilterConstruct(opts)

SpecFilter == FilterInit /\ [][FilterNext]_vars

\* The names of the tasks the filter lets through.
VisibleNames == {tasks[i].name : i \in {j \in 1..Len(tasks) : Visible(j)}}

Filtered == phase = "filtered"

\* The collection is the one setUp builds.
FixtureComplete == tasks = Fixture

\* C21: with a tag filter and no name filter, a task is visible exactly when
\* one of its tags is a requested tag, so a dependency of a matching task
\* stays hidden unless it matches itself; on the collection of setUp the tag
\* t2 lets through a and e and nothing else.
C21_TagFilterOnly ==
    (Filtered /\ ~IsNone(options.tags) /\ IsNone(options.tasks)) =>
        /\ \A i \in 1..Len(tasks) :
              Visible(i) <=> \E t \in tasks[i].tags : Str(t) \in Value(filter.tags)
        /\ (FixtureComplete /\ options.tags = Some({<<"t2">>})) => VisibleNames = {"a", "e"}

\* A tag-filtered collection where a visible task depends on a hidden one.
C21_Witness ==
    /\ Filtered /\ ~IsNone(options.tags) /\ IsNone(options.tasks)
    /\ \E i, j \in 1..Len(tasks) :
          /\ Visible(i)
          /\ tasks[j].name \in All(tasks[i].dependencies)
          /\ ~Visible(j)

\* C23 as claimed: on the collection of setUp, the name filter {e} together
\* with the tag filter {t1} lets through a and e and nothing else.
C23_Claim ==
    (/\ Filtered
     /\ FixtureComplete
     /\ options = [tags |-> Some({<<"t1">>}), tasks |-> Some({<<"e">>})]) =>
        VisibleNames = {"a", "e"}

\* C24 as claimed: for the problem p, the name filter {"p:*"} with no tag
\* filter lets every task of the collection through.
C24_Claim ==
    (/\ Filtered
     /\ problem = "p"
     /\ options = [tags |-> NoSet, tasks |-> Some({<<"p", ":", "*">>})]) =>
        \A i \in 1..Len(tasks) : Visible(i)

\* Every tail of an item of the collection.
Suffixes(collection) ==
    UNION {{SubSeq(item, k, Len(item)) : k \in 1..(Len(item) + 1)} : item \in collection}

\* What the claim says of a requested collection and a namespace P: the
\* items without ":" as they are, and the remainder of each item "P:...".
ProblemSpecific(collection, P) ==
    {item \in collection : \A k \in 1..Len(item) : item[k] # ":"}
    \cup {rest \in Suffixes(collection) : <<P, ":">> \o rest \in collection}

\* C25: the tags and the task names a filter holds are what
\* filter_problem_specific owes for the requested items and the namespace of
\* the problem: items without ":" unchanged, items "P:<item>" without the
\* "P:", nothing for an item of another namespace.
C25_ProblemSpecific ==
    Filtered =>
        /\ ~IsNone(options.tags) =>
              Value(filter.tags) = ProblemSpecific(Value(options.tags), problem)
        /\ ~IsNone(options.tasks) =>
              Value(filter.task_names) = ProblemSpecific(Value(options.tasks), problem)

\* A request with a plain item, an item of the problem's namespace and an
\* item of another namespace has been filtered.
C25_Witness ==
    /\ Filtered
    /\ problem = "p"
    /\ options.tags = Some({<<"t3">>, <<"p", ":", "t2", ":", "x">>, <<"q", ":", "t1">>})
    /\ filter.tags = Some({<<"t3">>, <<"t2", ":", "x">>})

----------------------------------------------------------------------------
(* Outcome model serialization: values *)

\* Score.__init__, Score.dump, Score.load
ScoreInit(numerator, denominator) ==
    [class |-> "Score", numerator |-> numerator, denominator |-> denominator]

ScoreDump(score) ==
    [numerator |-> DecimalStr(score.numerator),
     denominator |-> DecimalStr(score.denominator)]

ScoreLoad(mapping) ==
    ScoreInit(DecimalParse(mapping.numerator), DecimalParse(mapping.denominator))

\* Message, Message.dump, Message.load
MessageInit(kind, content) == [class |-> "Message", kind |-> kind, content |-> content]

MessageDump(message) == [kind |-> message.kind, content |-> message.content]

MessageLoad(mapping) == MessageInit(mapping.kind, mapping.content)

\* Error of grader/task/__init__.py (a dataclass compared by its fields)
\* and Error of task/error.py (eq=False: compared by identity).
ErrorClasses == {"Error", "task.Error"}

ErrorFields(cls) ==
    IF cls = "Error"
    THEN {"description", "suggestion", "location", "traceback", "expected", "actual"}
    ELSE {"description", "suggestion", "location", "traceback", "expected", "received"}

\* cls(**keywords) for an Error class; id tells the objects of an
\* identity-compared class apart.
ErrorInit(cls, keywords, id) ==
    IF ~(DOMAIN keywords \subseteq ErrorFields(cls)) \/ "description" \notin DOMAIN keywords
    THEN Raised("TypeError")
    ELSE [f \in ErrorFields(cls) |-> IF f \in DOMAIN keywords THEN keywords[f] ELSE PyNone]
         @@ (IF cls = "Error" THEN [class |-> cls] ELSE [class |-> cls, id |-> id])

\* A variant of Error.dump that always dumps in full.
ErrorDump_AlwaysFull(self, thin) == Restrict(self, ErrorFields(self.class))

\* Error.dump
ErrorDump(self, thin) ==
    IF thin
    THEN [description |-> self.description, suggestion |-> self.suggestion]
    ELSE IF self.class = "Error"
         THEN Restrict(self, ErrorFields(self.class))
         ELSE [f \in ErrorFields(self.class) |-> DeepCopy(self[f])]

\* Error.load
ErrorLoad(cls, mapping, id) == ErrorInit(cls, mapping, id)

----------------------------------------------------------------------------
(* Outcome model serialization: Result and its variants *)

\* Result of grader/task/__init__.py, its subclasses, and CheckResult, whose
\* base is the Result of task/__init__.py.
ResultClasses ==
    {"Result", "BuildResult", "CheckResult", "CorrectnessResult", "MemoryResult",
     "CleanupResult", "SetupResult"}

\* The class attribute kind.
ResultKind(cls) ==
    CASE cls = "BuildResult" -> "build"
      [] cls = "CheckResult" -> "check"
      [] cls = "CorrectnessResult" -> "correctness"
      [] cls = "MemoryResult" -> "memory"
      [] cls = "CleanupResult" -> "cleanup"
      [] cls = "SetupResult" -> "generic"
      [] cls = "Result" -> None

\* The base class is the Result of task/__init__.py.
OldBase(cls) == cls = "CheckResult"

\* The class is declared @dataclass(eq=False): == is identity.
IdentityCompared(cls) == cls \in {"BuildResult", "CheckResult"}

\* __init__ ends in **details.
VarKeywords(cls) ==
    cls \in {"BuildResult", "CheckResult", "CorrectnessResult", "CleanupResult", "SetupResult"}

\* The parameters __init__ names, and those among them without a default.
NamedParameters(cls) ==
    CASE cls = "Result" -> {"complete", "passing", "score", "error", "messages", "details"}
      [] cls = "MemoryResult" ->
            {"passing", "complete", "error_count", "leaked_blocks", "leaked_bytes",
             "score", "error", "messages", "details"}
      [] OTHER -> {"passing", "complete", "error"}

RequiredParameters(cls) ==
    CASE cls = "Result" -> {"complete", "passing"}
      [] cls \in {"CleanupResult", "SetupResult"} -> {}
      [] OTHER -> {"passing"}

\* error_count > 0, for a count that may be None
Positive(count) == count.class = "int" /\ count.int > 0

\* cls(**keywords) for a Result class: a keyword __init__ does not name goes
\* into **details where there is one and is a TypeError where there is none.
ResultInit(cls, keywords, id) ==
    LET given == DOMAIN keywords
        extra == given \ NamedParameters(cls)
        Arg(name, default) == IF name \in given THEN keywords[name] ELSE default
        OrEmpty(value, empty) == IF value = PyNone THEN empty ELSE value
        details == IF VarKeywords(cls)
                   THEN PyDict({<<k, keywords[k]>> : k \in extra})
                   ELSE OrEmpty(Arg("details", PyNone), PyDict({}))
        error_count == Arg("error_count", PyNone)
        leaked_bytes == Arg("leaked_bytes", PyNone)
        given_error == Arg("error", PyNone)
        made_error ==
            IF /\ cls = "MemoryResult"
               /\ given_error = PyNone
               /\ (Positive(error_count) \/ Positive(leaked_bytes))
            THEN ErrorInit("Error",
                           [description |-> PyFormat("leaked {} bytes with {} errors",
                                                     <<leaked_bytes, error_count>>)],
                           id)
            ELSE given_error
        common == [class |-> cls,
                   complete |-> Arg("complete", TRUE),
                   passing |-> Arg("passing", TRUE),
                   details |-> details,
                   error |-> made_error,
                   task |-> PyNone]
        scored == [score |-> IF VarKeywords(cls) THEN PyNone ELSE Arg("score", PyNone),
                   messages |-> IF VarKeywords(cls) THEN PyList(<<>>)
                                ELSE OrEmpty(Arg("messages", PyNone), PyList(<<>>))]
        counted == [error_count |-> error_count,
                    leaked_blocks |-> Arg("leaked_blocks", PyNone),
                    leaked_bytes |-> leaked_bytes]
        fields == IF OldBase(cls) THEN common
                  ELSE IF cls = "MemoryResult" THEN common @@ scored @@ counted
                  ELSE common @@ scored
    IN IF ~(RequiredParameters(cls) \subseteq given) \/ (extra # {} /\ ~VarKeywords(cls))
       THEN Raised("TypeError")
       ELSE IF IdentityCompared(cls) THEN fields @@ [id |-> id] ELSE fields

\* getattr(result, "kind"): the attribute of the instance, or of its class.
Kind(self) == IF "kind" \in DOMAIN self THEN self.kind ELSE ResultKind(self.class)

\* Result.dump of grader/task/__init__.py and of task/__init__.py, and
\* MemoryResult.dump: a score that is not a Score has no dump().
ResultDump(self, thin) ==
    LET task == [name |-> self.task.name, description |-> self.task.description]
        dumped_error == IF self.error = PyNone THEN PyNone ELSE ErrorDump(self.error, thin)
        old == [complete |-> self.complete, passing |-> self.passing,
                kind |-> Kind(self), error |-> dumped_error, task |-> task]
        new == [complete |-> self.complete, passing |-> self.passing,
                score |-> IF self.score = PyNone THEN PyNone ELSE ScoreDump(self.score),
                error |-> dumped_error,
                messages |-> [i \in 1..Len(self.messages.items) |->
                                 MessageDump(self.messages.items[i])],
                task |-> task]
        core == IF OldBase(self.class) THEN old ELSE new
        updated == IF thin THEN core ELSE core @@ [details |-> self.details]
    IN IF ~OldBase(self.class) /\ self.score # PyNone /\ self.score.class # "Score"
       THEN Raised("AttributeError")
       ELSE IF self.class = "MemoryResult"
       THEN Returned(updated @@ [error_count |-> self.error_count,
                                 leaked_blocks |-> self.leaked_blocks,
                                 leaked_bytes |-> self.leaked_bytes])
       ELSE Returned(updated)

\* Result.load of grader/task/__init__.py and of task/__init__.py: what the
\* mapping still holds after the pops goes to cls(**data, ...).
ResultLoad(cls, mapping, task, id) ==
    LET score_data == Pop(mapping, "score")
        score == IF score_data = PyNone THEN PyNone ELSE ScoreLoad(score_data)
        error_data == Pop(mapping, "error")
        error_class == IF OldBase(cls) THEN "task.Error" ELSE "Error"
        loaded_error == IF error_data = PyNone THEN PyNone
                        ELSE ErrorLoad(error_class, error_data, id)
        popped == IF OldBase(cls) THEN {"task", "kind", "error"}
                  ELSE {"task", "score", "error", "messages"}
        rest == Restrict(mapping, DOMAIN mapping \ popped)
        made == IF OldBase(cls)
                THEN ResultInit(cls, rest @@ [error |-> loaded_error], id)
                ELSE ResultInit(cls,
                                rest @@ [score |-> score,
                                         error |-> loaded_error,
                                         messages |->
                                             PyList([i \in 1..Len(mapping.messages) |->
                                                        MessageLoad(mapping.messages[i])])],
                                id)
    IN IF loaded_error.class = "raised" THEN loaded_error
       ELSE IF made.class = "raised" THEN made
       ELSE IF OldBase(cls) THEN [made EXCEPT !.task = task] @@ [kind |-> mapping.kind]
       ELSE [made EXCEPT !.task = task]

----------------------------------------------------------------------------
(* Outcome model serialization: round trips *)

\* mock.task("task"), as far as dump reads it.
TestTask == [class |-> "Task", name |-> "task", description |-> "A task"]

\* Keywords an Error is constructed with: the description alone, the
\* description and a suggestion, or every field.
ErrorKeywordInputs(cls) ==
    LET minimal == [description |-> PyStr("Hello, world!")]
        suggested == minimal @@ [suggestion |-> PyStr("Try this...")]
        most == suggested @@ [location |-> PyStr("Here"),
                              traceback |-> PyStr("Blah blah blah"),
                              expected |-> PyObject("expected")]
    IN {minimal, suggested,
        IF cls = "Error" THEN most @@ [actual |-> PyObject("actual")]
        ELSE most @@ [received |-> PyObject("received")]}

ErrorInputs(cls) == {ErrorInit(cls, keywords, "constructed") : keywords \in ErrorKeywordInputs(cls)}

\* An error field of a Result: none, or an Error of the class its base uses.
ResultErrorInputs(cls) ==
    {PyNone} \cup ErrorInputs(IF OldBase(cls) THEN "task.Error" ELSE "Error")

\* A score: none, a Score, or the bare number SerializationTests passes.
ScoreInputs == {PyNone, ScoreInit(Decimal(1), Decimal(2)), PyInt(1)}

MessagesInputs == {PyNone, PyList(<<MessageInit("debug", "test")>>)}

DetailsInputs == {PyNone, PyDict({<<"key", PyStr("value")>>})}

\* error_count, leaked_blocks, leaked_bytes of a MemoryResult
CountInputs ==
    {[error_count |-> PyNone, leaked_blocks |-> PyNone, leaked_bytes |-> PyNone],
     [error_count |-> PyInt(0), leaked_blocks |-> PyInt(0), leaked_bytes |-> PyInt(0)],
     [error_count |-> PyInt(1), leaked_blocks |-> PyInt(2), leaked_bytes |-> PyInt(3)]}

\* Keywords a Result of each class is constructed with.
ResultKeywordInputs(cls) ==
    LET flags == [complete : BOOLEAN, passing : BOOLEAN]
    IN CASE cls = "Result" ->
              {f @@ [score |-> s, error |-> e, messages |-> m, details |-> d] :
                  f \in flags, s \in ScoreInputs, e \in ResultErrorInputs(cls),
                  m \in MessagesInputs, d \in DetailsInputs}
         [] cls = "MemoryResult" ->
              {f @@ c @@ [score |-> s, error |-> e, details |-> d] :
                  f \in flags, c \in CountInputs,
                  s \in ScoreInputs \ {PyInt(1)},
                  e \in {PyNone, ErrorInit("Error", [description |-> PyStr("Hello, world!")], "constructed")},
                  d \in DetailsInputs}
         [] OTHER ->
              {f @@ [error |-> e] : f \in flags, e \in ResultErrorInputs(cls)}
              \cup {f @@ [error |-> e, key |-> PyStr("value")] :
                      f \in flags, e \in ResultErrorInputs(cls)}

\* result = cls(...); result.task = task
ResultInputs ==
    UNION {{[ResultInit(cls, keywords, "constructed") EXCEPT !.task = TestTask] :
               keywords \in ResultKeywordInputs(cls)} : cls \in ResultClasses}

\* The variables of the engine, which serialization leaves alone.
engine == <<tasks, pushed, phase, options, filter, idx, report, resources, invoked,
            error, last, problem>>

IsError(object) == object.class \in ErrorClasses
IsResult(object) == object.class \in ResultClasses

\* An Error or a Result with its task is constructed.
ConstructObject(object) ==
    /\ original = NoObject
    /\ original' = object
    /\ UNCHANGED <<data, loaded, engine, registration, amendment>>

\* object.dump(thin=thin): data is how the call ended, and in which mode.
Dump(thin) ==
    /\ original # NoObject
    /\ data = NoObject
    /\ data' = [thin |-> thin] @@ (IF IsError(original)
                                   THEN Returned(ErrorDump(original, thin))
                                   ELSE ResultDump(original, thin))
    /\ UNCHANGED <<original, loaded, engine, registration, amendment>>

\* cls.load(data) or cls.load(data, task), for a dump that returned.
Load ==
    /\ data # NoObject
    /\ data.class = "returned"
    /\ loaded = NoObject
    /\ loaded' = IF IsError(original)
                 THEN ErrorLoad(original.class, data.value, "loaded")
                 ELSE ResultLoad(original.class, data.value, original.task, "loaded")
    /\ UNCHANGED <<original, data, engine, registration, amendment>>

SerialNext ==
    \/ \E object \in ResultInputs \cup UNION {ErrorInputs(cls) : cls \in ErrorClasses} :
          ConstructObject(object)
    \/ \E thin \in BOOLEAN : Dump(thin)
    \/ Load

SpecSerial == Init /\ [][SerialNext]_vars

\* The object has been dumped in full.
FullDump == data # NoObject /\ ~data.thin

\* The object has come back from load(dump()).
RoundTrip == FullDump /\ loaded # NoObject

\* C27 as claimed: for a Result (grader/task/__init__.py) with its task,
\* the full dump returns and Result.load of it, with the same task, is a
\* Result equal to the first: complete, passing, score, error, messages,
\* details and task.
C27_Claim ==
    (original.class = "Result" /\ FullDump) =>
        /\ data.class = "returned"
        /\ loaded # NoObject => loaded = original

\* The fields of an error, whichever object holds them.
ErrorFieldsOf(object) ==
    IF object = PyNone THEN object ELSE Restrict(object, ErrorFields(object.class))

\* The fields a variant adds to those of Result.
VariantFields(cls) ==
    IF cls = "MemoryResult" THEN {"error_count", "leaked_blocks", "leaked_bytes"} ELSE {}

\* Two results of one variant with the same kind, complete, passing,
\* error, details and variant-specific fields.
Equivalent(one, other) ==
    /\ one.class = other.class
    /\ Kind(one) = Kind(other)
    /\ one.complete = other.complete
    /\ one.passing = other.passing
    /\ ErrorFieldsOf(one.error) = ErrorFieldsOf(other.error)
    /\ one.details = other.details
    /\ \A f \in VariantFields(one.class) : one[f] = other[f]

\* C28 as claimed: for a result of any concrete variant, the full dump
\* returns and the variant's load of it, with the same task, returns a
\* result equivalent to the first.
C28_Claim ==
    (original.class \in ResultClasses \ {"Result"} /\ FullDump) =>
        /\ data.class = "returned"
        /\ loaded # NoObject =>
              /\ loaded.class # "raised"
              /\ Equivalent(loaded, original)

\* C29 as claimed: for an Error of either class, Error.load of its full
\* dump is equal to it.
C29_Claim ==
    (IsError(original) /\ RoundTrip) => loaded = original

\* A full dump with the details key removed and the error entry, when
\* there is one, cut down to description and suggestion; a dump that
\* raised has nothing to remove.
Thinned(outcome) ==
    IF outcome.class = "raised" THEN outcome
    ELSE LET kept == Restrict(outcome.value, DOMAIN outcome.value \ {"details"})
         IN Returned([kept EXCEPT !["error"] =
                         IF @ = PyNone THEN @
                         ELSE Restrict(@, {"description", "suggestion"})])

\* C30: the thin dump of a Result with its task is its full dump without
\* the details key and with the error entry, when present, restricted to
\* the keys description and suggestion; every other key has the same value.
C30_ThinDump ==
    (IsResult(original) /\ data # NoObject /\ data.thin) =>
        data = [thin |-> TRUE] @@ Thinned(ResultDump(original, FALSE))

\* A Result with details and an error that has a location was dumped thin.
C30_Witness ==
    /\ original.class = "Result"
    /\ original.error # PyNone
    /\ original.error.location # PyNone
    /\ original.details.items # {}
    /\ data # NoObject
    /\ data.thin
    /\ data.class = "returned"
    /\ DOMAIN data.value.error = {"description", "suggestion"}
    /\ "details" \notin DOMAIN data.value
    /\ "details" \in DOMAIN ResultDump(original, FALSE).value

----------------------------------------------------------------------------
(* Registration through a profile: details against profile *)

\* class Mock(TaskProfile) of tests/mock.py, and two profiles a grading
\* script may define: one that sets every preset, one that sets points only.
Mock == TaskProfile @@ [result_type |-> "MockResult"]

Practice ==
    [details |-> PyDict({<<"k", PyInt(1)>>, <<"m", PyInt(2)>>}),
     graded |-> PyBool(FALSE),
     weight |-> PyInt(3),
     tags |-> PySet({"y"}),
     points |-> PyNone,
     result_type |-> "CorrectnessResult"]

Scored == TaskProfile @@ [points |-> PyInt(2), result_type |-> "CorrectnessResult"]

ProfileInputs == {Mock, Build, Practice, Scored}

\* A function, and a callable without __qualname__ and __doc__ of its own.
RunnableInputs ==
    {[qualname |-> PyStr("body"), doc |-> PyStr("A body"), params |-> <<>>],
     [qualname |-> PyNone, doc |-> PyNone, params |-> <<>>]}

\* The details of a call: any of the keys, each with one of a few values.
DetailChoices ==
    [graded : {PyBool(TRUE), PyBool(FALSE)},
     weight : {PyInt(0), PyInt(2)},
     tags : {PySet({"x"}), PyNone},
     passing : {PyStr("a"), PySet({"a", "b"})},
     complete : {PyStr("a"), PyList(<<"b", "c", "b">>)},
     k : {PyInt(5)},
     name : {PyStr("t")}]

DetailInputs ==
    {Restrict(full, keys) :
        full \in DetailChoices,
        keys \in SUBSET {"graded", "weight", "tags", "passing", "complete", "k", "name"}}

RegisterNext ==
    \/ \E runnable \in RunnableInputs, details \in DetailInputs, profile \in ProfileInputs :
          RegisterWithProfile(runnable, details, profile)
    \/ \E runnable \in RunnableInputs, details \in DetailInputs,
          result_type \in {"Result", "MockResult"} :
          RegisterWithResultType(runnable, details, result_type)

SpecRegister == Init /\ [][RegisterNext]_vars

\* The call supplies a value under the key.
Supplied(details, key) == key \in DOMAIN details /\ details[key] # PyNone

\* The value the call supplies, else the preset of the profile, else the
\* default.
Overlaid(details, profile, key, default) ==
    IF Supplied(details, key) THEN details[key]
    ELSE IF profile[key] # PyNone THEN profile[key]
    ELSE default

\* A registrar was called through a profile.
ThroughProfile ==
    registration.class = "registration" /\ "graded" \in DOMAIN registration.profile

\* C31 as claimed: of the arguments a registration through a profile
\* evaluates for the task, graded, weight and tags are the value the call
\* supplies, else the profile's, else true, 1 and no tags; and each details
\* key has the value of the call where the call has the key, and that of
\* the profile where only the profile has it.
C31_Claim ==
    ThroughProfile =>
        LET details == registration.details
            profile == registration.profile
            arguments == registration.arguments
            own == Popped({"tags", "name", "description", "passing", "complete",
                           "graded", "weight", "points"}, details)
            preset == IF profile.details = PyNone THEN <<>>
                      ELSE Mapping(profile.details.items)
        IN /\ "graded" \in DOMAIN arguments =>
                 arguments.graded = Overlaid(details, profile, "graded", PyBool(TRUE))
           /\ "weight" \in DOMAIN arguments =>
                 arguments.weight = ToDecimal(Overlaid(details, profile, "weight", PyInt(1)))
           /\ "tags" \in DOMAIN arguments =>
                 arguments.tags = Overlaid(details, profile, "tags", PySet({}))
           /\ "details" \in DOMAIN arguments =>
                 /\ DOMAIN arguments.details = DOMAIN own \cup DOMAIN preset
                 /\ \A key \in DOMAIN arguments.details :
                       arguments.details[key] =
                           IF key \in DOMAIN own THEN own[key] ELSE preset[key]

\* C32 as claimed: the passing and the complete set of the dependencies a
\* registration builds for its task have no name in common.
C32_Claim ==
    (registration.class = "registration"
     /\ "dependencies" \in DOMAIN registration.arguments) =>
        registration.arguments.dependencies.passing
            \cap registration.arguments.dependencies.complete = {}

----------------------------------------------------------------------------
(* Properties of the sort, the loop and the filter, continued *)

\* How many times the list holds the task.
Count(list, task) == Cardinality({i \in 1..Len(list) : list[i] = task})

\* C33: a push that leaves a collection with acyclic dependencies leaves a
\* permutation of the appended list: the list is one longer, holds the
\* pushed task once more than before and every other task as many times
\* as before.
C33_Permutation ==
    [][(phase = "register" /\ tasks' # tasks /\ Acyclic(tasks')) =>
          /\ Len(tasks') = Len(tasks) + 1
          /\ \E task \in Range(tasks') :
                \A other \in Range(tasks') \cup Range(tasks) :
                    Count(tasks', other) =
                        Count(tasks, other) + (IF other = task THEN 1 ELSE 0)]_vars

\* C33 witness: three different tasks, two of one name, stand in another
\* order than they were pushed in.
C33_Witness ==
    /\ phase = "register"
    /\ Len(tasks) = 3
    /\ Acyclic(tasks)
    /\ NoDuplicates(tasks)
    /\ ~DistinctNames(tasks)
    /\ pushed = <<3, 1, 2>>

\* The dependency names of the task at the position that no task of the
\* list has.
Undeclared(list, i) == {d \in All(list[i].dependencies) : ~HasTask(list, d)}

\* The dependency names of the task at the position for which the report
\* holds no Result.
Unreported(i) == {d \in All(tasks[i].dependencies) : ~InReport(report, d)}

\* C34: a push that leaves a task with a dependency name no task has, and
\* closes no cycle, succeeds; and the iteration on a visible task with a
\* dependency for which the report holds no Result records an incomplete
\* Result for it, invokes nothing and goes on to the next task, the run
\* still running.
C34_UndeclaredIsUnmet ==
    [][/\ (/\ phase = "register"
           /\ tasks' # tasks
           /\ \E i \in 1..Len(tasks') : Undeclared(tasks', i) # {}
           /\ OnCycle(tasks') = {}) =>
              (phase' = "register" /\ error' = error)
       /\ (InLoop /\ Visible(idx + 1) /\ Unreported(idx + 1) # {}) =>
              /\ phase' = "running"
              /\ error' = error
              /\ idx' = idx + 1
              /\ invoked' = invoked
              /\ InReport(report', tasks[idx + 1].name)
              /\ report'.results[tasks[idx + 1].name].task = idx + 1
              /\ ~report'.results[tasks[idx + 1].name].complete
              /\ ~report'.results[tasks[idx + 1].name].passing]_vars

\* C34 witness: a run has returned in which the body of one visible task
\* was not invoked because a dependency of it was never declared, and that
\* of another because its dependency was hidden by the filter.
C34_Witness ==
    /\ phase = "done"
    /\ \E i, j \in 1..Len(tasks) :
          /\ Visible(i) /\ i \notin Range(invoked)
          /\ Undeclared(tasks, i) # {}
          /\ Visible(j) /\ j \notin Range(invoked)
          /\ Undeclared(tasks, j) = {}
          /\ \E k \in 1..Len(tasks) :
                tasks[k].name \in All(tasks[j].dependencies) /\ ~Visible(k)
          /\ InReport(report, tasks[j].name)
          /\ ~report.results[tasks[j].name].complete

\* The task at the position has dependencies of the complete kind only, and
\* the report holds a complete Result for each.
CompleteKindMet(i) ==
    /\ tasks[i].dependencies.passing = {}
    /\ tasks[i].dependencies.complete # {}
    /\ \A d \in tasks[i].dependencies.complete :
          InReport(report, d) /\ report.results[d].complete

\* The task at the position has a passing-dependency whose Result is
\* complete and failing.
PassingKindFailed(i) ==
    \E d \in tasks[i].dependencies.passing :
        InReport(report, d) /\ report.results[d].complete /\ ~report.results[d].passing

\* The iteration recorded an incomplete Result for the task it was at and
\* invoked nothing.
RecordsIncomplete ==
    /\ invoked' = invoked
    /\ phase' = "running"
    /\ idx' = idx + 1
    /\ InReport(report', tasks[idx + 1].name)
    /\ report'.results[tasks[idx + 1].name].task = idx + 1
    /\ ~report'.results[tasks[idx + 1].name].complete

\* C35 as claimed: the iteration on a visible task with complete-kind
\* dependencies only, each with a complete Result, invokes the body of the
\* task whatever the passing values; with a passing-dependency on a complete
\* and failing Result the task is recorded incomplete instead.
C35_Original ==
    [][/\ (InLoop /\ Visible(idx + 1) /\ CompleteKindMet(idx + 1)) =>
              invoked' = Append(invoked, idx + 1)
       /\ (InLoop /\ Visible(idx + 1) /\ PassingKindFailed(idx + 1)) =>
              RecordsIncomplete]_vars

\* C35 as amended: the iteration on such a task runs the task whatever the
\* passing values: the body is invoked when every parameter of it has a
\* default or is a key of the resources, and otherwise the run ends with
\* the ValueError of the unresolved parameter; with a passing-dependency on
\* a complete and failing Result the task is recorded incomplete instead.
C35_Amended ==
    [][/\ (InLoop /\ Visible(idx + 1) /\ CompleteKindMet(idx + 1)) =>
              IF Missing(idx + 1) = {}
              THEN invoked' = Append(invoked, idx + 1)
              ELSE /\ invoked' = invoked
                   /\ phase' = "aborted"
                   /\ error'.type = "ValueError"
                   /\ report' = report
       /\ (InLoop /\ Visible(idx + 1) /\ PassingKindFailed(idx + 1)) =>
              RecordsIncomplete]_vars

\* C35 witness: after a task completed and failed, the body of a task with
\* a complete-dependency on it was invoked and a task with a
\* passing-dependency on it was recorded incomplete, uninvoked.
C35_Witness ==
    \E i, j, k \in 1..Len(tasks) :
        /\ i \in Range(invoked)
        /\ InReport(report, tasks[i].name)
        /\ report.results[tasks[i].name].task = i
        /\ report.results[tasks[i].name].complete
        /\ ~report.results[tasks[i].name].passing
        /\ j \in Range(invoked)
        /\ tasks[j].dependencies = [passing |-> {}, complete |-> {tasks[i].name}]
        /\ k \notin Range(invoked)
        /\ tasks[k].dependencies.passing = {tasks[i].name}
        /\ InReport(report, tasks[k].name)
        /\ report.results[tasks[k].name].task = k
        /\ ~report.results[tasks[k].name].complete

\* The Result the loop recorded for the task at the position had
\* complete=false: the task was gone through and is visible, and either its
\* body was not invoked, so that the Result was the incomplete one, or the
\* report still holds the Result recorded for it.
RecordedIncomplete(j) ==
    /\ j <= idx
    /\ Visible(j)
    /\ \/ j \notin Range(invoked)
       \/ /\ InReport(report, tasks[j].name)
          /\ report.results[tasks[j].name].task = j
          /\ ~report.results[tasks[j].name].complete

\* C36 as claimed: when the Result recorded for a task has complete=false,
\* every visible task gone through that names it as a dependency of either
\* kind, directly or through other tasks, was recorded incomplete without
\* its body being invoked.
C36_Claim ==
    InRun =>
        \A i, j \in 1..idx :
            (/\ Visible(i)
             /\ RecordedIncomplete(j)
             /\ tasks[j].name \in DependsOn(tasks, i)) =>
                (i \notin Range(invoked) /\ RecordedIncomplete(i))

\* Every declared dependency of a visible task that is in the collection is
\* visible itself.
ClosedUnderDependencies ==
    \A i, j \in 1..Len(tasks) :
        (Visible(i) /\ tasks[j].name \in All(tasks[i].dependencies)) => Visible(j)

\* C37 as claimed: with a name filter and no tag filter, the visible set is
\* closed under dependencies, so no task is hidden from a visible task that
\* depends on it.
C37_Claim == NameFilterOnly => ClosedUnderDependencies

\* The resource key of examples/simple/tests.py and the task that puts it
\* into the shared mapping.
PublishedKey == "module"

Publisher == "a"

\* The task at the position has a parameter named as the key, without a
\* default.
Consumer(i) ==
    \E k \in 1..Len(tasks[i].params) :
        tasks[i].params[k].name = PublishedKey /\ ~tasks[i].params[k].has_default

\* Every consumer of the key declares a passing dependency on the publisher.
ConsumersDeclare ==
    \A i \in 1..Len(tasks) : Consumer(i) => Publisher \in tasks[i].dependencies.passing

\* The publisher has put the key into the mapping whenever the report holds
\* a passing Result for it.
PublishesWhenPassing ==
    (InReport(report, Publisher) /\ report.results[Publisher].passing) =>
        PublishedKey \in resources

\* The run was left with the unresolved-input error for the key.
UnresolvedKey ==
    /\ phase = "aborted"
    /\ error.type = "ValueError"
    /\ Mentions(error.message, PublishedKey)

\* C38: when every consumer of the published key declares a passing
\* dependency on the publisher, and the publisher publishes the key whenever
\* its Result is passing, no run is left with the unresolved-input error for
\* the key, whatever the filter and the outcomes of the bodies: every
\* consumer gone through is hidden, or was invoked with the key in the
\* mapping, or was recorded incomplete without being invoked.
C38_OrderedByDependency ==
    (InRun /\ ConsumersDeclare /\ PublishesWhenPassing) =>
        /\ ~UnresolvedKey
        /\ \A i \in 1..idx :
              Consumer(i) =>
                 \/ ~Visible(i)
                 \/ i \in Range(invoked) /\ PublishedKey \in resources
                 \/ i \notin Range(invoked) /\ RecordedIncomplete(i)

\* C38 witness: a completed run under a filter in which a consumer that
\* declares the dependency was invoked after the publisher had passed and
\* published the key.
C38_Witness ==
    /\ phase = "done"
    /\ has_effect(filter)
    /\ ConsumersDeclare
    /\ PublishesWhenPassing
    /\ InReport(report, Publisher)
    /\ report.results[Publisher].passing
    /\ \E i \in Range(invoked) : Consumer(i)

----------------------------------------------------------------------------
(* Tasks that declare the base class Result, as those of tests/mock.py *)

\* The declarations of this part: the importer and its consumer, each
\* declared once with the base class, as mock.task declares its tasks, and
\* once with the class of examples/simple/tests.py.
DeclaredTasks ==
    UNION {{[name |-> n, dependencies |-> [passing |-> IF n = "b" THEN {"a"} ELSE {},
                                           complete |-> {}],
             tags |-> TagsOf(n), result_type |-> t, params |-> ParamsOf(n),
             source |-> SourceOf(n)] : t \in {BaseResult, ResultTypeOf(n)}} :
              n \in {"a", "b"}}

DeclaredNext ==
    \/ \E task \in DeclaredTasks : Push(task)
    \/ \E opts \in OptionInputs : StartRun(opts)
    \/ Hide
    \/ MarkIncomplete
    \/ Execute
    \/ Return

SpecDeclared == Init /\ [][DeclaredNext]_vars

\* The body of the task at hand produced a Result, returned or raised, of
\* another class than the declared one.
ProducedOther ==
    /\ last'.how \in {"returned", "raised"}
    /\ last'.value.class = "Result"
    /\ last'.value.type # Current.result_type

\* The Result of the iteration is one the engine made itself: the
\* incomplete one, or the default one for a body that returned None.
Synthesized ==
    \/ last'.how = "incomplete"
    \/ last'.how = "returned" /\ last'.value.class = "None"

\* C39 as claimed: a Result the body returned or raised whose class is not
\* exactly the declared one, a subclass of the declared one included, ends
\* the run with a GraderException and is not recorded; an incomplete or
\* default Result the engine made is recorded under the task's name and the
\* run goes on.
C39_Claim ==
    [][InLoop =>
          /\ ProducedOther =>
                /\ phase' = "aborted"
                /\ error'.type = "GraderException"
                /\ report' = report
          /\ Synthesized =>
                /\ phase' = "running"
                /\ InReport(report', Current.name)
                /\ report'.results[Current.name].task = Position
                /\ report'.results[Current.name].type = Current.result_type]_vars

----------------------------------------------------------------------------
(* amend_report (shell.py) *)

\* The problems of the assignment, the task names of a problem, and the
\* Results a report may hold under a name.
AmendProblems == {"p", "q"}

AmendNames == {"a", "b"}

AmendResults ==
    {ResultValue("CorrectnessResult", TRUE, TRUE),
     ResultValue("CorrectnessResult", TRUE, FALSE)}

\* problem_report.automated.results: a dict from task names to Results.
ResultDicts == UNION {[names -> AmendResults] : names \in SUBSET AmendNames}

\* An AssignmentReport of the assignment: a report for each of its problems.
AssignmentReports ==
    {[class |-> "AssignmentReport", problems |-> reports] :
        reports \in [AmendProblems -> ResultDicts]}

\* results[task_name] = result, for every item of the new dict in turn.
Assigned(results, items) ==
    [name \in DOMAIN results \cup DOMAIN items |->
        IF name \in DOMAIN items THEN items[name] ELSE results[name]]

\* A variant of the merge that takes the new report for the result.
amend_report_Replace(existing_report, new) == new

\* amend_report: the loop over the problems of the new report and over the
\* Results of each, storing every one into the existing report, which is
\* returned.
amend_report(existing_report, new) ==
    [existing_report EXCEPT !.problems =
        [problem_short \in DOMAIN existing_report.problems |->
            IF problem_short \in DOMAIN new.problems
            THEN Assigned(existing_report.problems[problem_short],
                          new.problems[problem_short])
            ELSE existing_report.problems[problem_short]]]

\* report = run(assignment, assignment_path, options)
RunReport(made) ==
    /\ new_report = NoObject
    /\ new_report' = made
    /\ UNCHANGED <<report_file, amended, engine, serial, registration>>

\* report = amend_report(assignment, report_path, report), the file at the
\* path holding the existing report.
AmendReport(existing) ==
    /\ new_report # NoObject
    /\ amended = NoObject
    /\ report_file' = existing
    /\ amended' = Returned(amend_report(existing, new_report))
    /\ UNCHANGED <<new_report, engine, serial, registration>>

AmendNext ==
    \/ \E made \in AssignmentReports : RunReport(made)
    \/ \E existing \in AssignmentReports : AmendReport(existing)

SpecAmend == Init /\ [][AmendNext]_vars

\* amend_report has returned.
Amended == amended # NoObject /\ amended.class = "returned"

\* The results of a problem in the existing report, in the new report and
\* in the report returned.
OldResults(p) == report_file.problems[p]

NewResults(p) == new_report.problems[p]

MergedResults(p) == amended.value.problems[p]

\* C40: in the report amend_report returns, for each problem, every task
\* name of the new report maps to the new Result, every task name only the
\* existing report had maps to its old Result, and no name of the existing
\* report is gone.
C40_OverwriteSameNamed ==
    Amended =>
        \A p \in AmendProblems :
            /\ \A n \in DOMAIN NewResults(p) :
                  n \in DOMAIN MergedResults(p) /\ MergedResults(p)[n] = NewResults(p)[n]
            /\ \A n \in DOMAIN OldResults(p) \ DOMAIN NewResults(p) :
                  n \in DOMAIN MergedResults(p) /\ MergedResults(p)[n] = OldResults(p)[n]
            /\ DOMAIN MergedResults(p) = DOMAIN OldResults(p) \cup DOMAIN NewResults(p)

\* C40 witness: a merge in which one problem has a name in both reports
\* with different Results and a name only in the existing report, and the
\* other problem has a name only in the new report.
C40_Witness ==
    /\ Amended
    /\ "a" \in DOMAIN OldResults("p") /\ "a" \in DOMAIN NewResults("p")
    /\ OldResults("p")["a"] # NewResults("p")["a"]
    /\ "b" \in DOMAIN OldResults("p") /\ "b" \notin DOMAIN NewResults("p")
    /\ "a" \in DOMAIN NewResults("q") /\ "a" \notin DOMAIN OldResults("q")
    /\ MergedResults("p")["b"] = OldResults("p")["b"]

====
